---------------------------- MODULE Spec2Model ----------------------------
(***************************************************************************)
(* A model of the polymarket-trader risk layer and of its callers.         *)
(*                                                                         *)
(*   lib/risk_manager.py    RiskManager: check_trade, register_trade,      *)
(*                          close_position, the daily rollover and the     *)
(*                          state file                                     *)
(*   apps/contrarian_trader.py  execute_buy / execute_sell run by several  *)
(*                          strategy tasks (as in apps/auto_trader.py)     *)
(*   apps/realtime_trader.py  Trader.check run by the two feed workers     *)
(*                                                                         *)
(* Money is counted in whole units of 5 USDC, prices in cents, time in     *)
(* clock ticks (one tick is one second of time.time(), so int(now) = now). *)
(* A RiskManager is a record `self`; every method is an operator from the  *)
(* record (and the clock) to the record after the call and the value       *)
(* returned.                                                               *)
(***************************************************************************)
EXTENDS Integers, Sequences, FiniteSets, TLC

VARIABLES
    now,          \* the wall clock, time.time()
    risk,         \* the RiskManager instance
    state_file,   \* the contents of RiskManager.state_file on disk
    ret,          \* the last RiskManager call: its name, its result, and
                  \* the arguments a later step reads
    hist,         \* history: what has happened to this instance so far
    tasks,        \* the strategy tasks: where each is in execute_buy
    rt,           \* the realtime Trader: markets, positions, feed workers
    crt,          \* the ContrarianRealTimeTrader and its workers
    journal,      \* the TradeJournal: the rows of its positions table
    buy,          \* one call of execute_buy: where it is, and what it did
    sell,         \* one call of execute_sell: where it is, and its arguments
    calc          \* a pure function under test: its arguments and its result

riskVars == <<now, risk, state_file, ret, hist>>

\* What the RiskManager, the strategy tasks and the Trader never touch.
extVars == <<crt, journal, buy, sell, calc>>

vars == <<now, risk, state_file, ret, hist, tasks, rt, crt, journal, buy, sell, calc>>

(***************************************************************************)
(* Bounds of the model.                                                    *)
(***************************************************************************)
MaxNow == 6            \* the clock stops here
MaxLedger == 3         \* register_trade is not called on a larger ledger
MaxDailyTrades == 4    \* register/close are not called past this count
MaxNowAPI == 4         \* the clock of SpecAPI and SpecConc stops here
MaxRestarts == 1       \* the process is started again at most this often
RTEpoch == 900         \* the clock when the Trader starts
TickSecs == 15         \* the step of the Trader's clock
MaxRTNow == 930        \* the Trader's clock stops here
MaxTicks == 3          \* Trader.check is called at most this often

(***************************************************************************)
(* RiskConfig: one configuration instance (RiskConfig is a constructor     *)
(* argument; the defaults are 5/25 USDC, 10 positions, 50/200 USDC, 50     *)
(* USDC loss, 50 trades, 30 s and 5 s; here a small instance).             *)
(***************************************************************************)
min_trade_size == 1
max_trade_size == 2
default_trade_size == 1
max_positions == 3
max_per_market == 2
max_total_exposure == 3
daily_loss_limit == 2
daily_trade_limit == 3
trade_cooldown == 2
global_cooldown == 1
min_price == 5
max_price == 95

\* The Trader's thresholds: 4 cents of edge, 30 s to the market's end, 30 s
\* between entries in one coin.
edge_threshold == 4
min_secs_left == 30
check_cooldown == 30

\* One UTC day, in clock ticks.
DayLen == 3

\* The clock at construction: the start of a day, late enough that the
\* cooldown clocks, which start at 0.0, have elapsed (time.time() is about
\* 1.7e9).
Epoch == DayLen

Markets == {"m1", "m2"}
Strategies == {"mirror_value", "mirror_swing"}
Tasks == {"mirror_value", "mirror_swing", "mirror_arb"}
Sides == {"BUY", "SELL"}
CheckSizes == 0 .. (max_trade_size + 1)
CheckPrices == {min_price - 1, 50, max_price + 1}
TradeSizes == min_trade_size .. max_trade_size
Pnls == {-2, 1}

NoFile == [exists |-> FALSE]

NoId == <<"", 0, 0>>
NoReason == [kind |-> "", detail |-> <<>>]
EmptyLedger == [i \in {} |-> 0]

Put(f, k, v) == [x \in (DOMAIN f) \cup {k} |-> IF x = k THEN v ELSE f[x]]
Drop(f, k) == [x \in (DOMAIN f) \ {k} |-> f[x]]

(***************************************************************************)
(* RiskManager                                                             *)
(***************************************************************************)

\* strategy[:3], the prefix register_trade puts in a position id.
Prefix(strategy) ==
    CASE strategy = "mirror_value" -> "mir"
      [] strategy = "mirror_swing" -> "mir"
      [] strategy = "mirror_arb" -> "mir"
      [] strategy = "value_scanner" -> "val"
      [] strategy = "swing_trader" -> "swi"
      [] OTHER -> "con"

\* The start of the UTC day that holds clock value t.
get_day_start(t) == (t \div DayLen) * DayLen

\* __init__ before _load_state, the clock reading t.
RiskManagerNew(t) ==
    [ positions |-> EmptyLedger,
      daily_pnl |-> 0,
      daily_trades |-> 0,
      day_start |-> get_day_start(t),
      last_trade_time |-> 0,
      last_trade_by_market |-> [c \in Markets |-> 0],
      halted |-> FALSE,
      halt_reason |-> <<>> ]

\* Mutant of check_new_day: the circuit breaker is not released.
check_new_day_still_halted(self, t) ==
    IF get_day_start(t) > self.day_start
    THEN [self EXCEPT !.daily_pnl = 0,
                      !.daily_trades = 0,
                      !.day_start = get_day_start(t)]
    ELSE self

check_new_day(self, t) ==
    IF get_day_start(t) > self.day_start
    THEN [self EXCEPT !.daily_pnl = 0,
                      !.daily_trades = 0,
                      !.day_start = get_day_start(t),
                      !.halted = FALSE,
                      !.halt_reason = <<>>]
    ELSE self

RECURSIVE SumUsdc(_, _)
SumUsdc(positions, ids) ==
    IF ids = {} THEN 0
    ELSE LET i == CHOOSE x \in ids : TRUE
         IN  positions[i].size_usdc + SumUsdc(positions, ids \ {i})

total_exposure(self) == SumUsdc(self.positions, DOMAIN self.positions)

position_count(self) == Cardinality(DOMAIN self.positions)

get_market_exposure(self, condition_id) ==
    SumUsdc(self.positions,
            {i \in DOMAIN self.positions :
                self.positions[i].condition_id = condition_id})

\* Mutant of over_market_limit: the notional of the new trade is left out.
over_market_limit_lax(self, condition_id, size_usdc) ==
    get_market_exposure(self, condition_id) > max_per_market

\* (market_exposure + size_usdc) > self.config.max_per_market
over_market_limit(self, condition_id, size_usdc) ==
    get_market_exposure(self, condition_id) + size_usdc > max_per_market

\* (self.total_exposure + size_usdc) > self.config.max_total_exposure
over_total_limit(self, size_usdc) ==
    total_exposure(self) + size_usdc > max_total_exposure

\* A rejection (False, reason). Of the numbers the reason texts embed the
\* model keeps the halt reason, which is state, and drops the others.
Rejected(self, kind, detail) ==
    [self |-> self, allowed |-> FALSE,
     reason |-> [kind |-> kind, detail |-> detail]]

\* Mutant of check_trade_body: the price filters run before the size limits.
check_trade_body_price_first(self, t, condition_id, price, size_usdc, side) ==
    IF self.halted
    THEN Rejected(self, "Trading halted", self.halt_reason)
    ELSE IF self.daily_pnl <= -daily_loss_limit
    THEN Rejected([self EXCEPT !.halted = TRUE,
                               !.halt_reason = <<self.daily_pnl>>],
                  "Daily loss limit hit", <<self.daily_pnl>>)
    ELSE IF self.daily_trades >= daily_trade_limit
    THEN Rejected(self, "Daily trade limit reached", <<>>)
    ELSE IF price < min_price
    THEN Rejected(self, "Price too low", <<>>)
    ELSE IF price > max_price
    THEN Rejected(self, "Price too high", <<>>)
    ELSE IF size_usdc < min_trade_size
    THEN Rejected(self, "Trade too small", <<>>)
    ELSE IF size_usdc > max_trade_size
    THEN Rejected(self, "Trade too large", <<>>)
    ELSE IF side = "BUY" /\ position_count(self) >= max_positions
    THEN Rejected(self, "Max positions reached", <<>>)
    ELSE IF side = "BUY" /\ over_market_limit(self, condition_id, size_usdc)
    THEN Rejected(self, "Market exposure limit", <<>>)
    ELSE IF side = "BUY" /\ over_total_limit(self, size_usdc)
    THEN Rejected(self, "Total exposure limit", <<>>)
    ELSE IF t - self.last_trade_time < global_cooldown
    THEN Rejected(self, "Global cooldown", <<>>)
    ELSE IF t - self.last_trade_by_market[condition_id] < trade_cooldown
    THEN Rejected(self, "Market cooldown", <<>>)
    ELSE [self |-> self, allowed |-> TRUE,
          reason |-> [kind |-> "OK", detail |-> <<>>]]

\* check_trade after its _check_new_day call: the chain of early returns.
check_trade_body(self, t, condition_id, price, size_usdc, side) ==
    IF self.halted
    THEN Rejected(self, "Trading halted", self.halt_reason)
    ELSE IF self.daily_pnl <= -daily_loss_limit
    THEN Rejected([self EXCEPT !.halted = TRUE,
                               !.halt_reason = <<self.daily_pnl>>],
                  "Daily loss limit hit", <<self.daily_pnl>>)
    ELSE IF self.daily_trades >= daily_trade_limit
    THEN Rejected(self, "Daily trade limit reached", <<>>)
    ELSE IF size_usdc < min_trade_size
    THEN Rejected(self, "Trade too small", <<>>)
    ELSE IF size_usdc > max_trade_size
    THEN Rejected(self, "Trade too large", <<>>)
    ELSE IF price < min_price
    THEN Rejected(self, "Price too low", <<>>)
    ELSE IF price > max_price
    THEN Rejected(self, "Price too high", <<>>)
    ELSE IF side = "BUY" /\ position_count(self) >= max_positions
    THEN Rejected(self, "Max positions reached", <<>>)
    ELSE IF side = "BUY" /\ over_market_limit(self, condition_id, size_usdc)
    THEN Rejected(self, "Market exposure limit", <<>>)
    ELSE IF side = "BUY" /\ over_total_limit(self, size_usdc)
    THEN Rejected(self, "Total exposure limit", <<>>)
    ELSE IF t - self.last_trade_time < global_cooldown
    THEN Rejected(self, "Global cooldown", <<>>)
    ELSE IF t - self.last_trade_by_market[condition_id] < trade_cooldown
    THEN Rejected(self, "Market cooldown", <<>>)
    ELSE [self |-> self, allowed |-> TRUE,
          reason |-> [kind |-> "OK", detail |-> <<>>]]

\* Mutant of check_trade: an approval starts the global cooldown.
check_trade_starts_cooldown(self, t, condition_id, price, size_usdc, side) ==
    LET r == check_trade_body(check_new_day(self, t), t, condition_id, price,
                              size_usdc, side)
    IN  IF r.allowed
        THEN [r EXCEPT !.self = [r.self EXCEPT !.last_trade_time = t]]
        ELSE r

check_trade(self, t, condition_id, price, size_usdc, side) ==
    check_trade_body(check_new_day(self, t), t, condition_id, price, size_usdc, side)

\* f"{strategy[:3]}_{int(now)}_{len(self.positions)}"
pos_id(self, t, strategy) == <<Prefix(strategy), t, position_count(self)>>

register_trade(self, t, strategy, condition_id, side, price, size_usdc) ==
    LET id == pos_id(self, t, strategy)
        position == [strategy |-> strategy,
                     condition_id |-> condition_id,
                     side |-> side,
                     entry_price |-> price,
                     size_usdc |-> size_usdc,
                     entry_time |-> t]
        ledger == IF side = "BUY"
                  THEN Put(self.positions, id, position)
                  ELSE self.positions
    IN  [self |-> [self EXCEPT
                      !.positions = ledger,
                      !.last_trade_time = t,
                      !.last_trade_by_market[condition_id] = t,
                      !.daily_trades = @ + 1],
         id |-> id]

\* Mutant of close_position: the breaker trips only below the limit.
close_position_strict(self, position_id, realized_pnl) ==
    IF position_id \notin DOMAIN self.positions
    THEN [self |-> self, found |-> FALSE]
    ELSE LET pnl == self.daily_pnl + realized_pnl
             hit == pnl < -daily_loss_limit
         IN  [self |-> [self EXCEPT
                           !.positions = Drop(@, position_id),
                           !.daily_pnl = pnl,
                           !.daily_trades = @ + 1,
                           !.halted = IF hit THEN TRUE ELSE @,
                           !.halt_reason = IF hit THEN <<pnl>> ELSE @],
              found |-> TRUE]

close_position(self, position_id, realized_pnl) ==
    IF position_id \notin DOMAIN self.positions
    THEN [self |-> self, found |-> FALSE]
    ELSE LET pnl == self.daily_pnl + realized_pnl
             hit == pnl <= -daily_loss_limit
         IN  [self |-> [self EXCEPT
                           !.positions = Drop(@, position_id),
                           !.daily_pnl = pnl,
                           !.daily_trades = @ + 1,
                           !.halted = IF hit THEN TRUE ELSE @,
                           !.halt_reason = IF hit THEN <<pnl>> ELSE @],
              found |-> TRUE]

is_halted(self, t) ==
    [self |-> check_new_day(self, t), halted |-> check_new_day(self, t).halted]

get_status(self, t) == [self |-> check_new_day(self, t)]

\* The snapshot _save_state writes: the ledger and the daily counters, not
\* the cooldown clocks.
save_state(self) ==
    [ exists |-> TRUE,
      positions |-> self.positions,
      daily_pnl |-> self.daily_pnl,
      daily_trades |-> self.daily_trades,
      day_start |-> self.day_start,
      halted |-> self.halted,
      halt_reason |-> self.halt_reason ]

\* Mutant of load_state: the daily counters are restored whatever the day.
load_state_any_day(self, file) ==
    IF ~file.exists THEN self
    ELSE [self EXCEPT !.positions = file.positions,
                      !.daily_pnl = file.daily_pnl,
                      !.daily_trades = file.daily_trades,
                      !.halted = file.halted,
                      !.halt_reason = file.halt_reason]

\* _load_state into a freshly constructed instance.
load_state(self, file) ==
    IF ~file.exists THEN self
    ELSE LET ids == (DOMAIN self.positions) \cup (DOMAIN file.positions)
             ledger == [i \in ids |-> IF i \in DOMAIN file.positions
                                      THEN file.positions[i]
                                      ELSE self.positions[i]]
         IN  IF file.day_start >= self.day_start
             THEN [self EXCEPT !.positions = ledger,
                               !.daily_pnl = file.daily_pnl,
                               !.daily_trades = file.daily_trades,
                               !.halted = file.halted,
                               !.halt_reason = file.halt_reason]
             ELSE [self EXCEPT !.positions = ledger]

\* A strategy task outside execute_buy.
Idle == [pc |-> "idle", cid |-> ""]

(***************************************************************************)
(* realtime_trader.py: Market and Trader.  Prices of outcome tokens are in *)
(* cents, reference prices in dollars, time in seconds.  A fair value or   *)
(* an edge is a fraction of a dollar; it is held as its numerator in cents *)
(* over the denominator Scale(m), so that no division is rounded.          *)
(***************************************************************************)
Coins == {"BTC", "ETH"}
Workers == {"binance_stream", "poly_stream"}
Tokens == {"up", "down"}
RefPrices == {1000, 1002}              \* Binance trade prices
Quotes == {<<38, 40>>, <<58, 60>>}     \* best bid and best ask of a token
SecsToEnd == {15, 900}                 \* what discover_markets finds

\* Market(coin) after discover_markets has set its tokens and end_time.
MarketNew(end_time) ==
    [ end_time |-> end_time,
      up_bid |-> 0, up_ask |-> 100,
      down_bid |-> 0, down_ask |-> 100,
      ref_price |-> 0, start_price |-> 0 ]

secs_left(m, t) == IF m.end_time - t > 0 THEN m.end_time - t ELSE 0

Scale(m) == IF m.start_price > 0 THEN m.start_price ELSE 1

Clamp(lo, x, hi) == IF x < lo THEN lo ELSE IF x > hi THEN hi ELSE x

\* (up_fair, down_fair), numerators over Scale(m).
fair_value(m) ==
    IF m.ref_price <= 0 \/ m.start_price <= 0
    THEN [up |-> 50 * Scale(m), down |-> 50 * Scale(m)]
    ELSE LET up_prob == Clamp(10 * m.start_price,
                              50 * m.start_price
                                  + 4000 * (m.ref_price - m.start_price),
                              90 * m.start_price)
         IN  [up |-> up_prob, down |-> 100 * m.start_price - up_prob]

\* get_edge with the two branches of its chain exchanged.
get_edge_down_first(m) ==
    LET fair == fair_value(m)
        up_edge == IF m.up_ask < 95
                   THEN fair.up - m.up_ask * Scale(m)
                   ELSE -100 * Scale(m)
        down_edge == IF m.down_ask < 95
                     THEN fair.down - m.down_ask * Scale(m)
                     ELSE -100 * Scale(m)
    IN  IF down_edge > 0
        THEN [side |-> "down", edge |-> down_edge, price |-> m.down_ask]
        ELSE IF up_edge > down_edge /\ up_edge > 0
        THEN [side |-> "up", edge |-> up_edge, price |-> m.up_ask]
        ELSE [side |-> "", edge |-> 0, price |-> 0]

\* (side, edge, price); side "" is None.  The edge is a numerator over
\* Scale(m).
get_edge(m) ==
    LET fair == fair_value(m)
        up_edge == IF m.up_ask < 95
                   THEN fair.up - m.up_ask * Scale(m)
                   ELSE -100 * Scale(m)
        down_edge == IF m.down_ask < 95
                     THEN fair.down - m.down_ask * Scale(m)
                     ELSE -100 * Scale(m)
    IN  IF up_edge > down_edge /\ up_edge > 0
        THEN [side |-> "up", edge |-> up_edge, price |-> m.up_ask]
        ELSE IF down_edge > 0
        THEN [side |-> "down", edge |-> down_edge, price |-> m.down_ask]
        ELSE [side |-> "", edge |-> 0, price |-> 0]

Receiving == [pc |-> "recv", coin |-> "", side |-> "", price |-> 0]

\* Trader.__init__, init_bot and the first discover_markets, at clock t.
TraderAt(t) ==
    [ markets |-> [c \in Coins |-> MarketNew(t + 900)],
      positions |-> [c \in {} |-> 0],
      cooldowns |-> [c \in {} |-> 0],
      ticks |-> 0,
      trades |-> 0,
      workers |-> [w \in Workers |-> Receiving] ]

TraderNew == TraderAt(RTEpoch)

\* Trader.check(m) run by worker w up to its return or to its
\* `await self.bot.place_order`, where the worker is left waiting.
check(self, t, w, coin) ==
    LET m == self.markets[coin]
        counted == [self EXCEPT !.ticks = @ + 1]
        e == get_edge(m)
        last == IF coin \in DOMAIN self.cooldowns THEN self.cooldowns[coin] ELSE 0
    IN  IF secs_left(m, t) < min_secs_left THEN counted
        ELSE IF coin \in DOMAIN self.positions THEN counted
        ELSE IF t - last < check_cooldown THEN counted
        ELSE IF e.side # "" /\ e.edge >= edge_threshold * Scale(m)
        THEN [counted EXCEPT !.workers[w] =
                 [pc |-> "place_order", coin |-> coin,
                  side |-> e.side, price |-> e.price]]
        ELSE counted

\* Trader.check after place_order has returned to worker w.
check_resume(self, t, w, success) ==
    LET o == self.workers[w]
    IN  IF success
        THEN [self EXCEPT
                 !.trades = @ + 1,
                 !.cooldowns = Put(@, o.coin, t),
                 !.positions = Put(@, o.coin, [side |-> o.side, entry |-> o.price]),
                 !.workers[w] = Receiving]
        ELSE [self EXCEPT !.workers[w] = Receiving]

(***************************************************************************)
(* contrarian_realtime.py: LiveMarket.  Prices of outcome tokens are in    *)
(* cents and reference prices in dollars, as above.  A probability or an   *)
(* edge is held in units of 1/FP of a dollar; math.exp is evaluated by its *)
(* power series in that fixed point, so a fair value is exact to a few     *)
(* units of 1/FP.                                                          *)
(***************************************************************************)
FP == 10000

RECURSIVE ExpSeries(_, _, _, _)
\* The sum of the terms x^n / n! from term n on, added to acc; all in 1/FP.
ExpSeries(x, n, term, acc) ==
    IF term = 0 \/ n > 40 THEN acc
    ELSE LET t == (term * x) \div (n * FP)
         IN  ExpSeries(x, n + 1, t, acc + t)

\* math.exp(x / FP) * FP for 0 <= x <= 2.5 * FP and its reciprocal below 0.
Exp(x) ==
    IF x >= 0 THEN ExpSeries(x, 1, FP, FP)
    ELSE (FP * FP) \div ExpSeries(-x, 1, FP, FP)

\* LiveMarket.fair_value: (up_prob, 1 - up_prob), or the OverflowError of
\* math.exp(k * pct_move) for k * pct_move above 709.78.  Beyond
\* |k * pct_move| = 2.5 the logistic is outside [0.08, 0.92] and the clamp
\* alone gives the result.
live_fair_value(m) ==
    IF m.ref_price <= 0 \/ m.start_price <= 0
    THEN [raises |-> FALSE, up |-> FP \div 2, down |-> FP \div 2]
    ELSE LET move == m.ref_price - m.start_price
         IN  IF 30000 * move > 70978 * m.start_price
             THEN [raises |-> TRUE, up |-> 0, down |-> 0]
             ELSE LET logistic ==
                          IF 600 * move > 5 * m.start_price THEN 0
                          ELSE IF 600 * move < -5 * m.start_price THEN FP
                          ELSE (FP * FP) \div
                                   (FP + Exp((300 * move * FP) \div m.start_price))
                      up_prob == Clamp((8 * FP) \div 100, logistic, (92 * FP) \div 100)
                  IN  [raises |-> FALSE, up |-> up_prob, down |-> FP - up_prob]

(***************************************************************************)
(* Quotes are Python floats parsed from two-decimal prices, and            *)
(* _check_exit subtracts and compares them as floats.  The double nearest  *)
(* to c cents is c/100 + CentErr[c+1] / (25 * 2^60); a difference of two   *)
(* such doubles is rounded to the nearest double, ties to the even         *)
(* mantissa, before it is compared.                                        *)
(***************************************************************************)
CentErr == <<
    0, 6, 12, -32, 24, 80, -64, 192, 48, -96,
    160, 16, -128, 128, 384, -160, 96, 352, -192, 64,
    320, -224, 32, 288, -256, 0, 256, 512, 768, -576,
    -320, -64, 192, 448, 704, -640, -384, -128, 128, 384,
    640, -704, -448, -192, 64, 320, 576, -768, -512, -256,
    0, 256, 512, 768, 1024, 1280, 1536, -1408, -1152, -896,
    -640, -384, -128, 128, 384, 640, 896, 1152, 1408, -1536,
    -1280, -1024, -768, -512, -256, 0, 256, 512, 768, 1024,
    1280, 1536, -1408, -1152, -896, -640, -384, -128, 128, 384,
    640, 896, 1152, 1408, -1536, -1280, -1024, -768, -512, -256,
    0>>

\* The spacing of the doubles around t cents, in units of 1 / (25 * 2^60).
Ulp(t) ==
    IF t >= 50 THEN 3200 ELSE IF t >= 25 THEN 1600 ELSE IF t >= 13 THEN 800
    ELSE IF t >= 7 THEN 400 ELSE IF t >= 4 THEN 200 ELSE IF t >= 2 THEN 100
    ELSE 50

\* The cent values whose double has an even mantissa.
EvenMantissa ==
    {0, 3, 5, 6, 7, 9, 10, 12, 13, 14, 18, 19, 20, 24, 25, 26, 27, 28, 35, 36,
     37, 38, 39, 40, 47, 48, 49, 50, 51, 52, 53, 54, 55, 56, 69, 70, 71, 72,
     73, 74, 75, 76, 77, 78, 79, 80, 81, 94, 95, 96, 97, 98, 99, 100}

\* float(a) - float(b) >= float(t) for prices of a, b and t cents, t > 0
\* and t/100 not a power of two.  A difference of other than t cents is
\* decided by the cents; one of t cents by its rounding.
float_sub_ge(a, b, t) ==
    IF a - b # t THEN a - b > t
    ELSE LET x == CentErr[a + 1] - CentErr[b + 1]
             g == CentErr[t + 1]
         IN  \/ 2 * x > 2 * g - Ulp(t)
             \/ 2 * x = 2 * g - Ulp(t) /\ t \in EvenMantissa

NoExit == ""

\* The same chain with the last seconds of the market tested before the
\* stop-loss.
exit_reason_closing_first(pos, current_bid, secs, tp, sl) ==
    IF float_sub_ge(current_bid, pos.entry_price, tp) THEN "take_profit"
    ELSE IF secs <= 60 /\ secs > 0 THEN "market_closing"
    ELSE IF float_sub_ge(pos.entry_price, current_bid, sl) THEN "stop_loss"
    ELSE IF /\ float_sub_ge(pos.peak_price, pos.entry_price, 5)
            /\ float_sub_ge(pos.peak_price, current_bid, 3) THEN "trailing_stop"
    ELSE NoExit

\* _check_exit, the if/elif chain: pos has its peak_price already raised.
exit_reason(pos, current_bid, secs, tp, sl) ==
    IF float_sub_ge(current_bid, pos.entry_price, tp) THEN "take_profit"
    ELSE IF float_sub_ge(pos.entry_price, current_bid, sl) THEN "stop_loss"
    ELSE IF secs <= 60 /\ secs > 0 THEN "market_closing"
    ELSE IF /\ float_sub_ge(pos.peak_price, pos.entry_price, 5)
            /\ float_sub_ge(pos.peak_price, current_bid, 3) THEN "trailing_stop"
    ELSE NoExit

Max(a, b) == IF a > b THEN a ELSE b

\* _check_exit up to its first await, for a position that is in the map:
\* the position with its new peak, the reason, and the SELL orders started.
check_exit(pos, current_bid, secs, tp, sl, dry_run) ==
    IF current_bid <= 0
    THEN [pos |-> pos, reason |-> NoExit, orders |-> <<>>]
    ELSE LET p == [pos EXCEPT !.peak_price = Max(pos.peak_price, current_bid)]
             r == exit_reason(p, current_bid, secs, tp, sl)
         IN  [pos |-> p, reason |-> r,
              orders |-> IF r = NoExit \/ dry_run THEN <<>>
                         ELSE <<Max(current_bid - 1, 1)>>]

NoTrader == [running |-> FALSE]
NoJournal == [positions |-> EmptyLedger]
NoBuy == [pc |-> "none"]
NoSell == [pc |-> "none"]
NoCalc == [fn |-> "none"]

(***************************************************************************)
(* One RiskManager instance and the calls made on it.                      *)
(***************************************************************************)

Ret(op) ==
    [op |-> op, cid |-> "", side |-> "", size |-> 0, pnl |-> 0,
     flag |-> FALSE, reason |-> NoReason, id |-> NoId]

\* A BUY registration follows the protocol when the call before it was a
\* check_trade of the same instrument and notional that returned allowed.
FollowsCheck(condition_id, size_usdc) ==
    /\ ret.op = "check_trade"
    /\ ret.flag
    /\ ret.side = "BUY"
    /\ ret.cid = condition_id
    /\ ret.size = size_usdc

\* Nothing else is running.
ExtInit ==
    /\ crt = NoTrader
    /\ journal = NoJournal
    /\ buy = NoBuy
    /\ sell = NoSell
    /\ calc = NoCalc

RiskInit ==
    /\ now = Epoch
    /\ risk = RiskManagerNew(Epoch)
    /\ state_file = NoFile
    /\ ret = Ret("init")
    /\ hist = [loss_day |-> -1, restarts |-> 0]
    /\ tasks = [s \in Tasks |-> Idle]
    /\ rt = TraderNew
    /\ ExtInit

Tick ==
    /\ now < MaxNow
    /\ now' = now + 1
    /\ UNCHANGED <<risk, state_file, ret, hist, tasks, rt, extVars>>

CheckTrade(condition_id, price, size_usdc, side) ==
    LET r == check_trade(risk, now, condition_id, price, size_usdc, side)
    IN  /\ risk' = r.self
        /\ ret' = IF r.allowed
                  THEN [Ret("check_trade") EXCEPT
                           !.cid = condition_id, !.side = side,
                           !.size = size_usdc, !.flag = TRUE,
                           !.reason = r.reason]
                  ELSE [Ret("check_trade") EXCEPT !.reason = r.reason]
        /\ hist' = [hist EXCEPT !.loss_day =
                        IF check_new_day(risk, now).daily_pnl <= -daily_loss_limit
                        THEN get_day_start(now) ELSE @]
        /\ UNCHANGED <<now, state_file, rt, extVars>>

\* _save_state: the write of the snapshot, or (saved = FALSE) the logged
\* failure of that write.
Persist(self, saved) ==
    state_file' = IF saved THEN save_state(self) ELSE state_file

RegisterTrade(strategy, condition_id, side, price, size_usdc, saved) ==
    LET r == register_trade(risk, now, strategy, condition_id, side, price, size_usdc)
    IN  /\ position_count(risk) < MaxLedger
        /\ risk.daily_trades < MaxDailyTrades
        /\ risk' = r.self
        /\ Persist(r.self, saved)
        /\ ret' = [Ret("register_trade") EXCEPT
                      !.cid = condition_id, !.side = side, !.size = size_usdc,
                      !.flag = TRUE, !.id = r.id]
        /\ UNCHANGED <<now, hist, rt, extVars>>

\* The ids close_position is called with: every open one, and the id of the
\* call before (an id just closed, or one never issued).
CloseIds == (DOMAIN risk.positions) \cup {ret.id}

ClosePosition(position_id, realized_pnl, saved) ==
    LET r == close_position(risk, position_id, realized_pnl)
    IN  /\ risk.daily_trades < MaxDailyTrades
        /\ risk' = r.self
        /\ IF r.found THEN Persist(r.self, saved) ELSE UNCHANGED state_file
        /\ ret' = [Ret("close_position") EXCEPT
                      !.id = position_id, !.pnl = realized_pnl, !.flag = r.found]
        /\ hist' = [hist EXCEPT !.loss_day =
                        IF r.self.daily_pnl <= -daily_loss_limit
                        THEN get_day_start(now) ELSE @]
        /\ UNCHANGED <<now, rt, extVars>>

IsHalted ==
    /\ risk' = is_halted(risk, now).self
    /\ ret' = [Ret("is_halted") EXCEPT !.flag = is_halted(risk, now).halted]
    /\ UNCHANGED <<now, state_file, hist, tasks, rt, extVars>>

GetStatus ==
    /\ risk' = get_status(risk, now).self
    /\ ret' = Ret("get_status")
    /\ UNCHANGED <<now, state_file, hist, tasks, rt, extVars>>

CheckTradeStep ==
    \E c \in Markets, p \in CheckPrices, n \in CheckSizes, sd \in Sides :
        CheckTrade(c, p, n, sd) /\ UNCHANGED tasks

\* The caller of execute_buy: register_trade(BUY) right after the
\* check_trade that allowed it.
RegisterTradeStep ==
    \E s \in Strategies, c \in Markets, n \in TradeSizes :
        /\ FollowsCheck(c, n)
        /\ RegisterTrade(s, c, "BUY", 50, n, TRUE)
        /\ UNCHANGED tasks

ClosePositionStep ==
    \E i \in CloseIds, pnl \in Pnls :
        ClosePosition(i, pnl, TRUE) /\ UNCHANGED tasks

Next ==
    \/ Tick
    \/ CheckTradeStep
    \/ RegisterTradeStep
    \/ ClosePositionStep
    \/ IsHalted
    \/ GetStatus

Spec == RiskInit /\ [][Next]_vars

(***************************************************************************)
(* The RiskManager called without the protocol: register_trade of either   *)
(* side and any notional at any time, within a few seconds of one day.     *)
(***************************************************************************)
TickAPI ==
    /\ now < MaxNowAPI
    /\ now' = now + 1
    /\ UNCHANGED <<risk, state_file, ret, hist, tasks, rt, extVars>>

RegisterTradeAny ==
    \E s \in Strategies, c \in Markets, sd \in Sides, n \in TradeSizes :
        /\ RegisterTrade(s, c, sd, 50, n, TRUE)
        /\ UNCHANGED tasks

NextAPI ==
    \/ TickAPI
    \/ RegisterTradeAny
    \/ ClosePositionStep

SpecAPI == RiskInit /\ [][NextAPI]_vars

(***************************************************************************)
(* execute_buy and execute_sell run one at a time, with the process        *)
(* stopped and started again over the state file at any time.              *)
(***************************************************************************)

\* RiskManager(config, state_file) constructed by a new process.
Restart ==
    /\ hist.restarts < MaxRestarts
    /\ risk' = load_state(RiskManagerNew(now), state_file)
    /\ ret' = Ret("restart")
    /\ hist' = [hist EXCEPT !.restarts = @ + 1]
    /\ UNCHANGED <<now, state_file, tasks, rt, extVars>>

NextPersist ==
    \/ Tick
    \/ \E c \in Markets :
           CheckTrade(c, 50, default_trade_size, "BUY") /\ UNCHANGED tasks
    \/ RegisterTradeStep
    \/ ClosePositionStep
    \/ IsHalted
    \/ Restart

SpecPersist == RiskInit /\ [][NextPersist]_vars

(***************************************************************************)
(* The strategy tasks of run_daemon on one RiskManager.  A task is inside  *)
(* execute_buy from its check_trade to the result of place_order; the      *)
(* event loop runs the other tasks while it waits there.  A few seconds    *)
(* of one day.                                                             *)
(***************************************************************************)

\* execute_buy up to `await bot.place_order`: rejected, the task returns;
\* allowed, it waits for the order with the instrument it checked.
BuyCheck(s, c) ==
    /\ tasks[s].pc = "idle"
    /\ CheckTrade(c, 50, default_trade_size, "BUY")
    /\ tasks' = [tasks EXCEPT ![s] =
                    IF check_trade(risk, now, c, 50, default_trade_size, "BUY").allowed
                    THEN [pc |-> "place_order", cid |-> c]
                    ELSE Idle]

\* place_order returned success: register_trade with what was checked.
BuyFilled(s) ==
    /\ tasks[s].pc = "place_order"
    /\ RegisterTrade(s, tasks[s].cid, "BUY", 50, default_trade_size, TRUE)
    /\ tasks' = [tasks EXCEPT ![s] = Idle]

\* place_order returned failure: nothing is registered.
BuyFailed(s) ==
    /\ tasks[s].pc = "place_order"
    /\ tasks' = [tasks EXCEPT ![s] = Idle]
    /\ UNCHANGED <<now, risk, state_file, ret, hist, rt, extVars>>

\* execute_sell, by the task that owns the position, once its SELL order
\* has succeeded.
Sell(s, i, pnl) ==
    /\ tasks[s].pc = "idle"
    /\ i \in DOMAIN risk.positions
    /\ risk.positions[i].strategy = s
    /\ ClosePosition(i, pnl, TRUE)
    /\ UNCHANGED tasks

NextConc ==
    \/ TickAPI
    \/ \E s \in Tasks, c \in Markets : BuyCheck(s, c)
    \/ \E s \in Tasks : BuyFilled(s)
    \/ \E s \in Tasks : BuyFailed(s)
    \/ \E s \in Tasks, i \in DOMAIN risk.positions, pnl \in Pnls :
           Sell(s, i, pnl)

SpecConc == RiskInit /\ [][NextConc]_vars

(***************************************************************************)
(* The realtime Trader: its two feed workers, the refresh of the markets   *)
(* and the results of its orders.                                          *)
(***************************************************************************)
RTInit ==
    /\ now = RTEpoch
    /\ risk = RiskManagerNew(RTEpoch)
    /\ state_file = NoFile
    /\ ret = Ret("init")
    /\ hist = [loss_day |-> -1, restarts |-> 0]
    /\ tasks = [s \in Tasks |-> Idle]
    /\ rt = TraderNew
    /\ ExtInit

RTTick ==
    /\ now < MaxRTNow
    /\ now' = now + TickSecs
    /\ UNCHANGED <<risk, state_file, ret, hist, tasks, rt, extVars>>

\* binance_stream: one trade message of a coin of self.markets.
BinanceTrade(sym, px) ==
    /\ rt.workers["binance_stream"].pc = "recv"
    /\ rt.ticks < MaxTicks
    /\ LET m == rt.markets[sym]
           seen == [rt EXCEPT !.markets[sym] =
                       [m EXCEPT !.ref_price = px,
                                 !.start_price = IF @ = 0 THEN px ELSE @]]
       IN  rt' = check(seen, now, "binance_stream", sym)
    /\ UNCHANGED <<now, risk, state_file, ret, hist, tasks, extVars>>

\* poly_stream: one book or price_change message for a token of a market.
PolyQuote(coin, token, q) ==
    /\ rt.workers["poly_stream"].pc = "recv"
    /\ rt.ticks < MaxTicks
    /\ LET m == rt.markets[coin]
           seen == [rt EXCEPT !.markets[coin] =
                       IF token = "up"
                       THEN [m EXCEPT !.up_bid = q[1], !.up_ask = q[2]]
                       ELSE [m EXCEPT !.down_bid = q[1], !.down_ask = q[2]]]
       IN  rt' = check(seen, now, "poly_stream", coin)
    /\ UNCHANGED <<now, risk, state_file, ret, hist, tasks, extVars>>

\* The result of a worker's place_order.
OrderResult(w, success) ==
    /\ rt.workers[w].pc = "place_order"
    /\ rt' = check_resume(rt, now, w, success)
    /\ UNCHANGED <<now, risk, state_file, ret, hist, tasks, extVars>>

\* market_refresh: discover_markets sets the end of a coin's market.
RefreshMarket(coin, secs) ==
    /\ rt.markets[coin].end_time # now + secs
    /\ rt' = [rt EXCEPT !.markets[coin].end_time = now + secs]
    /\ UNCHANGED <<now, risk, state_file, ret, hist, tasks, extVars>>

NextRT ==
    \/ RTTick
    \/ \E sym \in Coins, px \in RefPrices : BinanceTrade(sym, px)
    \/ \E coin \in Coins, token \in Tokens, q \in Quotes :
           PolyQuote(coin, token, q)
    \/ \E w \in Workers : OrderResult(w, TRUE)
    \/ \E w \in Workers : OrderResult(w, FALSE)
    \/ \E coin \in Coins, secs \in SecsToEnd : RefreshMarket(coin, secs)

SpecRT == RTInit /\ [][NextRT]_vars

(***************************************************************************)
(* auto_trader.py: execute_buy and execute_sell on one RiskManager and     *)
(* one TradeJournal.  The journal's positions table keeps the status of    *)
(* every id it was given; the process may be started again, in dry-run or  *)
(* in live mode, over the state file and the journal.                      *)
(***************************************************************************)
\* TradeJournal.open_position: INSERT OR REPLACE ... 'open'.
journal_open_position(j, position_id) ==
    [j EXCEPT !.positions = Put(@, position_id, "open")]

\* TradeJournal.close_position: UPDATE ... SET status = 'closed' WHERE id.
journal_close_position(j, position_id) ==
    [j EXCEPT !.positions =
        [i \in DOMAIN @ |-> IF i = position_id THEN "closed" ELSE @[i]]]

\* The strategies of auto_trader.py that manage positions.
AutoStrategies == {"value_scanner", "swing_trader"}

SellIdle(dry_run) ==
    [pc |-> "idle", dry_run |-> dry_run, pos_id |-> NoId, pnl |-> 0,
     order |-> "none", orders |-> 0, risk_closes |-> 0, journal_closes |-> 0]

\* execute_sell from risk.close_position on.
execute_sell_close(r, j, s) ==
    [risk |-> close_position(r, s.pos_id, s.pnl).self,
     found |-> close_position(r, s.pos_id, s.pnl).found,
     journal |-> journal_close_position(j, s.pos_id),
     sell |-> [s EXCEPT !.pc = "idle", !.risk_closes = @ + 1,
                        !.journal_closes = @ + 1]]

\* The same, whatever the order reported.
execute_sell_result_ignored(r, j, s, success) ==
    execute_sell_close(r, j, [s EXCEPT !.order = IF success THEN "success"
                                                  ELSE "failure"])

\* execute_sell after `await bot.place_order`: a failed order returns.
execute_sell_result(r, j, s, success) ==
    IF success
    THEN execute_sell_close(r, j, [s EXCEPT !.order = "success"])
    ELSE [risk |-> r, found |-> FALSE, journal |-> j,
          sell |-> [s EXCEPT !.pc = "idle", !.order = "failure"]]

\* execute_sell up to `await bot.place_order`; in dry-run mode all of it.
execute_sell(r, j, s, position_id, pnl) ==
    LET call == [SellIdle(s.dry_run) EXCEPT !.pos_id = position_id, !.pnl = pnl]
    IN  IF s.dry_run
        THEN execute_sell_close(r, j, call)
        ELSE [risk |-> r, found |-> FALSE, journal |-> j,
              sell |-> [call EXCEPT !.pc = "place_order", !.orders = 1]]

BuyIdle ==
    [pc |-> "idle", strategy |-> "", cid |-> "", allowed |-> FALSE,
     order |-> "none", orders |-> 0, registers |-> 0, opens |-> 0, id |-> NoId]

\* The same, registering whatever the order reported.
execute_buy_result_ignored(r, j, b, t, success) ==
    LET reg == register_trade(r, t, b.strategy, b.cid, "BUY", 50,
                              default_trade_size)
    IN  [risk |-> reg.self, saved |-> TRUE,
         journal |-> journal_open_position(j, reg.id),
         buy |-> [b EXCEPT !.pc = "idle",
                           !.order = IF success THEN "success" ELSE "failure",
                           !.registers = @ + 1, !.opens = @ + 1, !.id = reg.id]]

\* execute_buy after `await bot.place_order`: register_trade, log_trade and
\* open_position on success, a logged decision otherwise.
execute_buy_result(r, j, b, t, success) ==
    IF success
    THEN LET reg == register_trade(r, t, b.strategy, b.cid, "BUY", 50,
                                   default_trade_size)
         IN  [risk |-> reg.self, saved |-> TRUE,
              journal |-> journal_open_position(j, reg.id),
              buy |-> [b EXCEPT !.pc = "idle", !.order = "success",
                                !.registers = @ + 1, !.opens = @ + 1,
                                !.id = reg.id]]
    ELSE [risk |-> r, saved |-> FALSE, journal |-> j,
          buy |-> [b EXCEPT !.pc = "idle", !.order = "failure"]]

\* execute_buy up to `await bot.place_order`: a rejected check returns, and
\* so does a dry run.
execute_buy(r, j, t, strategy, condition_id, dry_run) ==
    LET chk == check_trade(r, t, condition_id, 50, default_trade_size, "BUY")
        call == [BuyIdle EXCEPT !.strategy = strategy, !.cid = condition_id,
                                !.allowed = chk.allowed]
    IN  [risk |-> chk.self, saved |-> FALSE, journal |-> j,
         buy |-> IF chk.allowed /\ ~dry_run
                 THEN [call EXCEPT !.pc = "place_order", !.orders = 1]
                 ELSE call]

AutoInit ==
    /\ now = Epoch
    /\ risk = RiskManagerNew(Epoch)
    /\ state_file = NoFile
    /\ ret = Ret("init")
    /\ hist = [loss_day |-> -1, restarts |-> 0]
    /\ tasks = [s \in Tasks |-> Idle]
    /\ rt = TraderNew
    /\ crt = NoTrader
    /\ calc = NoCalc
    /\ journal = NoJournal
    /\ buy = BuyIdle
    /\ \E dry \in BOOLEAN : sell = SellIdle(dry)

AutoTick ==
    /\ now < MaxNowAPI
    /\ now' = now + 1
    /\ UNCHANGED <<risk, state_file, ret, hist, tasks, rt, crt, calc, journal, buy, sell>>

\* What a step of execute_buy leaves behind.
BuyOutcome(r) ==
    /\ risk' = r.risk
    /\ state_file' = IF r.saved THEN save_state(r.risk) ELSE state_file
    /\ journal' = r.journal
    /\ buy' = r.buy
    /\ ret' = IF r.buy.registers > 0
              THEN [Ret("register_trade") EXCEPT
                       !.cid = r.buy.cid, !.side = "BUY",
                       !.size = default_trade_size, !.flag = TRUE,
                       !.id = r.buy.id]
              ELSE ret
    /\ hist' = [hist EXCEPT !.loss_day =
                    IF r.risk.daily_pnl <= -daily_loss_limit
                    THEN get_day_start(now) ELSE @]
    /\ UNCHANGED <<now, tasks, rt, crt, calc, sell>>

\* A strategy's scan calls execute_buy.
BuyStart(strategy, condition_id) ==
    /\ buy.pc = "idle"
    /\ position_count(risk) < MaxLedger
    /\ BuyOutcome(execute_buy(risk, journal, now, strategy, condition_id,
                              sell.dry_run))

\* place_order returns.
BuyResult(success) ==
    /\ buy.pc = "place_order"
    /\ risk.daily_trades < MaxDailyTrades
    /\ BuyOutcome(execute_buy_result(risk, journal, buy, now, success))

\* What a step of execute_sell leaves behind.
SellOutcome(r) ==
    /\ risk' = r.risk
    /\ state_file' = IF r.found THEN save_state(r.risk) ELSE state_file
    /\ journal' = r.journal
    /\ sell' = r.sell
    /\ ret' = IF r.sell.risk_closes > 0
              THEN [Ret("close_position") EXCEPT
                       !.id = r.sell.pos_id, !.pnl = r.sell.pnl, !.flag = r.found]
              ELSE ret
    /\ hist' = [hist EXCEPT !.loss_day =
                    IF r.risk.daily_pnl <= -daily_loss_limit
                    THEN get_day_start(now) ELSE @]
    /\ UNCHANGED <<now, tasks, rt, crt, calc, buy>>

\* _manage calls execute_sell for a position of the ledger.
SellStart(position_id, pnl) ==
    /\ sell.pc = "idle"
    /\ position_id \in DOMAIN risk.positions
    /\ risk.daily_trades < MaxDailyTrades
    /\ SellOutcome(execute_sell(risk, journal, sell, position_id, pnl))

\* place_order returns.
SellResult(success) ==
    /\ sell.pc = "place_order"
    /\ SellOutcome(execute_sell_result(risk, journal, sell, success))

\* The process is started again over the state file and the journal.
AutoRestart(dry_run) ==
    /\ sell.pc = "idle"
    /\ buy.pc = "idle"
    /\ hist.restarts < MaxRestarts
    /\ risk' = load_state(RiskManagerNew(now), state_file)
    /\ sell' = SellIdle(dry_run)
    /\ ret' = Ret("restart")
    /\ hist' = [hist EXCEPT !.restarts = @ + 1]
    /\ buy' = BuyIdle
    /\ UNCHANGED <<now, state_file, tasks, rt, crt, calc, journal>>

NextAuto ==
    \/ AutoTick
    \/ \E st \in AutoStrategies, c \in Markets : BuyStart(st, c)
    \/ BuyResult(TRUE)
    \/ BuyResult(FALSE)
    \/ \E i \in DOMAIN risk.positions, pnl \in Pnls : SellStart(i, pnl)
    \/ SellResult(TRUE)
    \/ SellResult(FALSE)
    \/ \E dry \in BOOLEAN : AutoRestart(dry)

SpecAuto == AutoInit /\ [][NextAuto]_vars

(***************************************************************************)
(* contrarian_realtime.py: ContrarianRealTimeTrader on one coin, with its  *)
(* RiskManager and its TradeJournal.  The clock counts steps of TickSecs   *)
(* seconds, and the trader's thresholds are in seconds.  binance_stream    *)
(* handles one trade message at a time and is suspended inside _check_edge *)
(* or _check_exit while an order is awaited; poly_stream and               *)
(* market_refresh_loop run meanwhile.  Money is in units of trade_size, a  *)
(* realised PnL is booked in whole units, rounded down.  The counters      *)
(* total_ticks, edge_checks, trades_executed and poly_ticks are written    *)
(* but read only by the status log, and are left out.                      *)
(***************************************************************************)
MaxCrtNow == 9
MaxBinanceTicks == 7

tp_cents == 8
sl_cents == 5
live_edge_threshold == 4
live_min_secs_left == 30
live_cooldown == 20
refresh_secs_left == 5
min_binance_ticks == 5

CrtCoins == {"BTC"}
CrtRefPrices == {1000, 1002}
\* Book messages: (bid, ask) of the up token and of the down token.
CrtQuotes(side) ==
    IF side = "up" THEN {<<38, 40>>, <<50, 52>>, <<2, 3>>} ELSE {<<58, 60>>}
\* price_change messages: (best_bid, best_ask), absent fields defaulted.
CrtChanges == {<<38, 40>>, <<0, 100>>}
CrtSides == {"up", "down"}
CrtEnds == {5}

LiveMarketNew ==
    [ condition_id |-> "", up_token |-> "", down_token |-> "", end_time |-> 0,
      up_bid |-> 0, up_ask |-> 100, down_bid |-> 0, down_ask |-> 100,
      ref_price |-> 0, start_price |-> 0, binance_ticks |-> 0 ]

\* discover_markets for one coin whose market info was returned.
discovered(m, coin, condition_id, end_time) ==
    [m EXCEPT !.condition_id = condition_id,
              !.up_token = <<coin, condition_id, "up">>,
              !.down_token = <<coin, condition_id, "down">>,
              !.end_time = end_time,
              !.start_price = 0, !.ref_price = 0, !.binance_ticks = 0]

\* LiveMarket.secs_left, in seconds.
live_secs_left(m, t) == Max(0, (m.end_time - t) * TickSecs)

has_data(m) ==
    /\ m.up_token # ""
    /\ m.ref_price > 0
    /\ m.start_price > 0
    /\ m.up_bid > 0
    /\ m.binance_ticks >= min_binance_ticks

\* LiveMarket.get_edge: (side, edge, price), side "" for None; the edge in
\* units of 1/FP.
live_get_edge(m) ==
    IF ~has_data(m) THEN [side |-> "", edge |-> 0, price |-> 0]
    ELSE LET fair == live_fair_value(m)
             cent == FP \div 100
             up_edge == IF m.up_ask < 95 THEN fair.up - m.up_ask * cent ELSE -FP
             down_edge == IF m.down_ask < 95 THEN fair.down - m.down_ask * cent
                          ELSE -FP
         IN  IF up_edge > down_edge /\ up_edge > 0
             THEN [side |-> "up", edge |-> up_edge, price |-> m.up_ask]
             ELSE IF down_edge > 0
             THEN [side |-> "down", edge |-> down_edge, price |-> m.down_ask]
             ELSE [side |-> "", edge |-> 0, price |-> 0]

\* poly_stream: the tokens of the markets that have tokens, as collected
\* before a connection is opened.
tokens_of(markets) ==
    UNION {{markets[c].up_token, markets[c].down_token} :
              c \in {x \in DOMAIN markets : markets[x].up_token # ""}}

\* The token of one side of a market.
token_id(m, side) == IF side = "up" THEN m.up_token ELSE m.down_token

\* binance_stream between two messages.
Streaming ==
    [pc |-> "recv", coin |-> "", side |-> "", price |-> 0, cid |-> "",
     pos_id |-> NoId, reason |-> NoExit, bid |-> 0, pnl |-> 0]

\* What the last call of _check_edge did.
NoAttempt ==
    [checked |-> FALSE, allowed |-> FALSE, orders |-> 0, order |-> "none"]

\* What the last liquidation started by _check_exit did.
NoLiquidation == [orders |-> 0, last |-> "none"]

\* __init__, init and the first discover_markets of run, at clock t, with the
\* four tasks of run started: binance_stream (binance), poly_stream (poly),
\* status_loop (status) and market_refresh_loop (refresh).
ContrarianAt(t, dry_run, end_time) ==
    [ running |-> TRUE,
      shutdown |-> "no",
      poly |-> "recv",
      subscribed |-> UNION {{<<c, "m1", "up">>, <<c, "m1", "down">>} : c \in CrtCoins},
      status |-> "sleep",
      dry_run |-> dry_run,
      markets |-> [c \in CrtCoins |-> discovered(LiveMarketNew, c, "m1", end_time)],
      positions |-> [c \in {} |-> 0],
      cooldowns |-> [c \in CrtCoins |-> 0],
      binance |-> Streaming,
      refresh |-> "scan",
      attempt |-> NoAttempt,
      liquidation |-> NoLiquidation ]

\* (current_bid - entry_price) * size_shares, size_shares = size_usdc / entry.
live_pnl(pos, current_bid) ==
    ((current_bid - pos.entry_price) * pos.size_usdc) \div pos.entry_price

bid_of(m, side) == IF side = "up" THEN m.up_bid ELSE m.down_bid

\* The result of a handler step: the trader, the RiskManager, the journal,
\* and whether _save_state ran.
Step(c, r, j, saved) == [crt |-> c, risk |-> r, journal |-> j, saved |-> saved]

\* The same without the cooldown.
entry_blocked_no_cooldown(c, t, coin) ==
    \/ live_secs_left(c.markets[coin], t) < live_min_secs_left
    \/ coin \in DOMAIN c.positions

\* The first two returns of _check_edge: too close to the end, a position
\* in the coin, or less than the cooldown since cooldowns[coin].
entry_blocked(c, t, coin) ==
    \/ live_secs_left(c.markets[coin], t) < live_min_secs_left
    \/ coin \in DOMAIN c.positions
    \/ (t - c.cooldowns[coin]) * TickSecs < live_cooldown

\* The same, starting the coin's cooldown.
edge_rejected_with_cooldown(c, r, j, t, coin) ==
    Step([c EXCEPT !.attempt = [NoAttempt EXCEPT !.checked = TRUE],
                   !.cooldowns[coin] = t],
         r, j, FALSE)

\* _check_edge when check_trade has rejected: the decision is logged.
edge_rejected(c, r, j, t, coin) ==
    Step([c EXCEPT !.attempt = [NoAttempt EXCEPT !.checked = TRUE]], r, j, FALSE)

\* _check_edge for coin, up to its return or to `await bot.place_order`.
check_edge(c, r, j, t, coin) ==
    LET m == c.markets[coin]
        none == [c EXCEPT !.attempt = NoAttempt]
        halt == is_halted(r, t)
        e == live_get_edge(m)
        chk == check_trade(halt.self, t, m.condition_id, e.price,
                           default_trade_size, "BUY")
    IN  IF entry_blocked(c, t, coin)
        THEN Step(none, r, j, FALSE)
        ELSE IF halt.halted
        THEN Step(none, halt.self, j, FALSE)
        ELSE IF e.side = "" \/ e.edge < live_edge_threshold * (FP \div 100)
        THEN Step(none, halt.self, j, FALSE)
        ELSE IF ~chk.allowed
        THEN edge_rejected(c, chk.self, j, t, coin)
        ELSE IF c.dry_run
        THEN Step([c EXCEPT !.attempt = [NoAttempt EXCEPT !.checked = TRUE,
                                                          !.allowed = TRUE],
                            !.cooldowns[coin] = t],
                  chk.self, j, FALSE)
        ELSE Step([c EXCEPT !.attempt = [NoAttempt EXCEPT !.checked = TRUE,
                                                          !.allowed = TRUE,
                                                          !.orders = 1],
                            !.binance = [Streaming EXCEPT
                                            !.pc = "buy_order", !.coin = coin,
                                            !.side = e.side, !.price = e.price]],
                  chk.self, j, FALSE)

\* _check_edge after `await bot.place_order`.
check_edge_result(c, r, j, t, success) ==
    LET coin == c.binance.coin
        m == c.markets[coin]
        reg == register_trade(r, t, "contrarian_rt", m.condition_id, "BUY",
                              c.binance.price, default_trade_size)
        pos == [side |-> c.binance.side, entry_price |-> c.binance.price,
                size_usdc |-> default_trade_size, risk_pos_id |-> reg.id,
                peak_price |-> c.binance.price]
    IN  IF success
        THEN Step([c EXCEPT !.attempt.order = "success",
                            !.cooldowns[coin] = t,
                            !.positions = Put(@, coin, pos),
                            !.binance = [Streaming EXCEPT !.coin = coin]],
                  reg.self, journal_open_position(j, reg.id), TRUE)
        ELSE Step([c EXCEPT !.attempt.order = "failure",
                            !.binance = [Streaming EXCEPT !.coin = coin]],
                  r, j, FALSE)

\* The end of _check_exit: risk.close_position, journal.close_position and
\* `del self.positions[coin]`, with the id, bid and PnL taken before the
\* orders.  When the Position is no longer in the map the del raises
\* KeyError, which binance_stream's `except Exception` takes: the worker
\* sleeps and connects again.
exit_close(c, r, j, coin, position_id, pnl) ==
    Step([c EXCEPT !.positions = Drop(@, coin),
                   !.binance = IF coin \in DOMAIN c.positions THEN Streaming
                               ELSE [Streaming EXCEPT !.pc = "backoff"]],
         close_position(r, position_id, pnl).self,
         journal_close_position(j, position_id),
         close_position(r, position_id, pnl).found)

\* _check_exit for coin, up to its return or to its first `await`.
run_check_exit(c, r, j, t, coin) ==
    IF coin \notin DOMAIN c.positions
    THEN Step([c EXCEPT !.binance = Streaming], r, j, FALSE)
    ELSE LET m == c.markets[coin]
             pos == c.positions[coin]
             current_bid == bid_of(m, pos.side)
             x == check_exit(pos, current_bid, live_secs_left(m, t),
                             tp_cents, sl_cents, c.dry_run)
             c1 == [c EXCEPT !.positions[coin] = x.pos, !.binance = Streaming]
         IN  IF x.reason = NoExit THEN Step(c1, r, j, FALSE)
             ELSE IF c.dry_run
             THEN exit_close(c1, r, j, coin, pos.risk_pos_id,
                             live_pnl(pos, current_bid))
             ELSE Step([c1 EXCEPT !.binance =
                           [Streaming EXCEPT
                               !.pc = "sell_order", !.coin = coin,
                               !.pos_id = pos.risk_pos_id,
                               !.reason = x.reason, !.bid = current_bid,
                               !.pnl = live_pnl(pos, current_bid)],
                                  !.liquidation = [orders |-> 1, last |-> "none"]],
                       r, j, FALSE)

\* _check_exit after the first SELL: closed on success, one retry otherwise.
exit_sell_result(c, r, j, success) ==
    IF success
    THEN exit_close([c EXCEPT !.liquidation.last = "success"], r, j,
                    c.binance.coin, c.binance.pos_id, c.binance.pnl)
    ELSE Step([c EXCEPT !.binance.pc = "sell_retry",
                        !.liquidation = [orders |-> 2, last |-> "failure"]],
              r, j, FALSE)

\* _check_exit after the retry, whose result is not looked at.
exit_retry_result(c, r, j, success) ==
    exit_close([c EXCEPT !.liquidation.last = IF success THEN "success"
                                              ELSE "failure"],
               r, j, c.binance.coin, c.binance.pos_id, c.binance.pnl)

\* market_refresh_loop, the scan of an expiring market: its position is
\* force-closed at the last bid.
force_close(c, r, j, coin) ==
    IF coin \notin DOMAIN c.positions
    THEN Step([c EXCEPT !.refresh = "discover"], r, j, FALSE)
    ELSE LET pos == c.positions[coin]
             pnl == live_pnl(pos, bid_of(c.markets[coin], pos.side))
         IN  Step([c EXCEPT !.positions = Drop(@, coin), !.refresh = "discover"],
                  close_position(r, pos.risk_pos_id, pnl).self,
                  journal_close_position(j, pos.risk_pos_id),
                  close_position(r, pos.risk_pos_id, pnl).found)

CrtInit ==
    /\ now = Epoch
    /\ risk = RiskManagerNew(Epoch)
    /\ state_file = NoFile
    /\ ret = Ret("init")
    /\ hist = [loss_day |-> -1, restarts |-> 0]
    /\ tasks = [s \in Tasks |-> Idle]
    /\ rt = TraderNew
    /\ calc = NoCalc
    /\ buy = NoBuy
    /\ sell = NoSell
    /\ journal = NoJournal
    /\ \E dry \in BOOLEAN, e \in CrtEnds : crt = ContrarianAt(Epoch, dry, Epoch + e)

\* What a handler step leaves behind.
CrtOutcome(s) ==
    /\ crt' = s.crt
    /\ risk' = s.risk
    /\ journal' = s.journal
    /\ state_file' = IF s.saved THEN save_state(s.risk) ELSE state_file
    /\ UNCHANGED <<now, ret, hist, tasks, rt, buy, sell>>

CrtTick ==
    /\ now < MaxCrtNow
    /\ now' = now + 1
    /\ UNCHANGED <<risk, state_file, ret, hist, tasks, rt, crt, journal, buy, sell>>

\* binance_stream, one trade message: the reference price, then
\* _check_edge and, unless that is waiting for its order, _check_exit.
CrtBinance(sym, px) ==
    /\ crt.shutdown = "no"
    /\ crt.binance.pc = "recv"
    /\ crt.markets[sym].binance_ticks < MaxBinanceTicks
    /\ risk.daily_trades < MaxDailyTrades
    /\ LET m == crt.markets[sym]
           c0 == [crt EXCEPT !.markets[sym] =
                      [m EXCEPT !.ref_price = px,
                                !.binance_ticks = @ + 1,
                                !.start_price = IF @ = 0 THEN px ELSE @]]
           e == check_edge(c0, risk, journal, now, sym)
       IN  CrtOutcome(IF e.crt.binance.pc = "buy_order" THEN e
                      ELSE run_check_exit(e.crt, e.risk, e.journal, now, sym))

\* The BUY order returns: the rest of _check_edge, then _check_exit.
CrtBuyResult(success) ==
    /\ crt.shutdown = "no"
    /\ crt.binance.pc = "buy_order"
    /\ risk.daily_trades < MaxDailyTrades - 1
    /\ LET e == check_edge_result(crt, risk, journal, now, success)
           x == run_check_exit(e.crt, e.risk, e.journal, now, crt.binance.coin)
       IN  CrtOutcome([x EXCEPT !.saved = e.saved \/ x.saved])

\* The first SELL order returns.
CrtSellResult(success) ==
    /\ crt.shutdown = "no"
    /\ crt.binance.pc = "sell_order"
    /\ risk.daily_trades < MaxDailyTrades
    /\ CrtOutcome(exit_sell_result(crt, risk, journal, success))

\* The second SELL order returns.
CrtRetryResult(success) ==
    /\ crt.shutdown = "no"
    /\ crt.binance.pc = "sell_retry"
    /\ risk.daily_trades < MaxDailyTrades
    /\ CrtOutcome(exit_retry_result(crt, risk, journal, success))

\* _on_book for a token of market m: the best bid and ask of the message.
on_book_resets_ref(m, side, q) ==
    IF side = "up"
    THEN [m EXCEPT !.up_bid = q[1], !.up_ask = q[2], !.ref_price = 0]
    ELSE [m EXCEPT !.down_bid = q[1], !.down_ask = q[2], !.ref_price = 0]

on_book(m, side, q) ==
    IF side = "up"
    THEN [m EXCEPT !.up_bid = q[1], !.up_ask = q[2]]
    ELSE [m EXCEPT !.down_bid = q[1], !.down_ask = q[2]]

\* _on_price_change for a token of market m: a bid above 0 and an ask below
\* 1 are taken.
on_price_change(m, side, q) ==
    IF side = "up"
    THEN [m EXCEPT !.up_bid = IF q[1] > 0 THEN q[1] ELSE @,
                   !.up_ask = IF q[2] < 100 THEN q[2] ELSE @]
    ELSE [m EXCEPT !.down_bid = IF q[1] > 0 THEN q[1] ELSE @,
                   !.down_ask = IF q[2] < 100 THEN q[2] ELSE @]

\* poly_stream, a book message for a token of the coin's market.
CrtBook(coin, side, q) ==
    /\ crt.shutdown = "no"
    /\ crt.poly = "recv"
    /\ crt.markets[coin].up_token # ""
    /\ token_id(crt.markets[coin], side) \in crt.subscribed
    /\ crt' = [crt EXCEPT !.markets[coin] = on_book(@, side, q)]
    /\ UNCHANGED <<now, risk, state_file, ret, hist, tasks, rt, journal, buy, sell>>

\* poly_stream, a price_change message for a token of the coin's market.
CrtPriceChange(coin, side, q) ==
    /\ crt.shutdown = "no"
    /\ crt.poly = "recv"
    /\ crt.markets[coin].up_token # ""
    /\ token_id(crt.markets[coin], side) \in crt.subscribed
    /\ crt' = [crt EXCEPT !.markets[coin] = on_price_change(@, side, q)]
    /\ UNCHANGED <<now, risk, state_file, ret, hist, tasks, rt, journal, buy, sell>>

\* market_refresh_loop finds the coin's market within its last seconds.
CrtRefreshScan(coin) ==
    /\ crt.shutdown = "no"
    /\ crt.refresh = "scan"
    /\ crt.markets[coin].up_token # ""
    /\ live_secs_left(crt.markets[coin], now) <= refresh_secs_left
    /\ risk.daily_trades < MaxDailyTrades
    /\ CrtOutcome(force_close(crt, risk, journal, coin))

\* market_refresh_loop, after its sleep: discover_markets finds the coin's
\* next market, or none.
CrtDiscover(coin, found, condition_id, e) ==
    /\ crt.shutdown = "no"
    /\ crt.refresh = "discover"
    /\ crt' = [crt EXCEPT !.refresh = "scan",
                          !.markets[coin] =
                              IF found
                              THEN discovered(@, coin, condition_id, now + e)
                              ELSE @]
    /\ UNCHANGED <<now, risk, state_file, ret, hist, tasks, rt, journal, buy, sell>>

\* Where a task is: the pc of binance_stream, and the states of the others.
task_pc(c, task) ==
    CASE task = "binance" -> c.binance.pc
      [] task = "poly" -> c.poly
      [] task = "status" -> c.status
      [] task = "refresh" -> c.refresh

at_pc(c, task, pc) ==
    CASE task = "binance" -> [c EXCEPT !.binance = [Streaming EXCEPT !.pc = pc]]
      [] task = "poly" -> [c EXCEPT !.poly = pc]
      [] task = "status" -> [c EXCEPT !.status = pc]
      [] task = "refresh" -> [c EXCEPT !.refresh = pc]

\* A feed worker connects and subscribes again.
CrtReconnect(w) ==
    /\ crt.shutdown = "no"
    /\ task_pc(crt, w) \in {"backoff", "connect"}
    /\ crt' = IF w = "poly"
              THEN [at_pc(crt, w, "recv") EXCEPT
                       !.subscribed = tokens_of(crt.markets)]
              ELSE at_pc(crt, w, "recv")
    /\ UNCHANGED <<now, risk, state_file, ret, hist, tasks, rt, journal, buy, sell>>

NextCrt ==
    \/ CrtTick /\ UNCHANGED calc
    \/ \E sym \in CrtCoins, px \in CrtRefPrices :
           CrtBinance(sym, px) /\ UNCHANGED calc
    \/ CrtBuyResult(TRUE) /\ UNCHANGED calc
    \/ CrtBuyResult(FALSE) /\ UNCHANGED calc
    \/ CrtSellResult(TRUE) /\ UNCHANGED calc
    \/ CrtSellResult(FALSE) /\ UNCHANGED calc
    \/ CrtRetryResult(TRUE) /\ UNCHANGED calc
    \/ CrtRetryResult(FALSE) /\ UNCHANGED calc
    \/ \E coin \in CrtCoins, side \in CrtSides :
           \E q \in CrtQuotes(side) : CrtBook(coin, side, q) /\ UNCHANGED calc
    \/ \E coin \in CrtCoins, q \in CrtChanges :
           CrtPriceChange(coin, "up", q) /\ UNCHANGED calc
    \/ \E coin \in CrtCoins : CrtRefreshScan(coin) /\ UNCHANGED calc
    \/ \E coin \in CrtCoins, found \in BOOLEAN, c \in Markets, e \in CrtEnds :
           CrtDiscover(coin, found, c, e) /\ UNCHANGED calc
    \/ CrtReconnect("binance") /\ UNCHANGED calc

SpecCrt == CrtInit /\ [][NextCrt]_vars

(***************************************************************************)
(* The two fair-value functions applied to one pair of prices.             *)
(***************************************************************************)
FairStarts == {0, 1, 10, 100, 1000}
FairRefs == {0, 1, 2, 4, 9, 10, 11, 13, 90, 99, 100, 101, 110, 400,
             990, 995, 998, 999, 1000, 1001, 1002, 1005, 1010, 1100}

FairInit ==
    /\ now = Epoch
    /\ risk = RiskManagerNew(Epoch)
    /\ state_file = NoFile
    /\ ret = Ret("init")
    /\ hist = [loss_day |-> -1, restarts |-> 0]
    /\ tasks = [s \in Tasks |-> Idle]
    /\ rt = TraderNew
    /\ crt = NoTrader
    /\ journal = NoJournal
    /\ buy = NoBuy
    /\ sell = NoSell
    /\ \E s \in FairStarts, r \in FairRefs :
           calc = [fn |-> "fair_value", done |-> FALSE,
                   start_price |-> s, ref_price |-> r,
                   original |-> [up |-> 0, down |-> 0],
                   contrarian |-> [raises |-> FALSE, up |-> 0, down |-> 0]]

\* Market.fair_value and LiveMarket.fair_value of the same prices.
FairValue ==
    /\ calc.fn = "fair_value"
    /\ ~calc.done
    /\ LET m == [start_price |-> calc.start_price, ref_price |-> calc.ref_price]
       IN  calc' = [calc EXCEPT !.done = TRUE,
                                !.original = fair_value(m),
                                !.contrarian = live_fair_value(m)]
    /\ UNCHANGED <<now, risk, state_file, ret, hist, tasks, rt, crt, journal, buy, sell>>

NextFair == FairValue

SpecFair == FairInit /\ [][NextFair]_vars

(***************************************************************************)
(* Properties of the RiskManager under Spec.                               *)
(***************************************************************************)

\* C1: when every register_trade(BUY, c, n) directly follows a check_trade
\* (c, n, BUY) that returned allowed, and positions are closed at any time,
\* the notional summed over the open ledger entries never exceeds
\* max_total_exposure, nor that of one condition_id max_per_market.
C1_ExposureWithinLimits ==
    /\ total_exposure(risk) <= max_total_exposure
    /\ \A c \in Markets : get_market_exposure(risk, c) <= max_per_market

\* A registration that fills both the total and one instrument's limit.
C1_Witness ==
    /\ ret.op = "register_trade"
    /\ total_exposure(risk) = max_total_exposure
    /\ \E c \in Markets : get_market_exposure(risk, c) = max_per_market

\* C3: within one UTC day a check_trade, approving or rejecting, changes
\* nothing of the RiskManager (ledger, exposure, daily_trades, daily_pnl,
\* the global and the per-instrument cooldown clocks); a notional above
\* max_trade_size is rejected, for its size when no earlier check fails; and
\* the same call repeated on the state and clock it left returns the same
\* (allowed, reason). Stated of the call made in any reachable state with
\* any input.
C3_CheckTradeReadOnly ==
    \A c \in Markets, p \in CheckPrices, n \in CheckSizes, sd \in Sides :
        LET r == check_trade(risk, now, c, p, n, sd)
            again == check_trade(r.self, now, c, p, n, sd)
        IN  get_day_start(now) = risk.day_start =>
              /\ r.self.positions = risk.positions
              /\ total_exposure(r.self) = total_exposure(risk)
              /\ r.self.daily_trades = risk.daily_trades
              /\ r.self.daily_pnl = risk.daily_pnl
              /\ r.self.last_trade_time = risk.last_trade_time
              /\ r.self.last_trade_by_market = risk.last_trade_by_market
              /\ n > max_trade_size => ~r.allowed
              /\ (/\ n > max_trade_size
                  /\ ~risk.halted
                  /\ risk.daily_trades < daily_trade_limit)
                 => r.reason.kind = "Trade too large"
              /\ again.allowed = r.allowed
              /\ again.reason = r.reason

\* An approving check_trade made while a cooldown clock has been set by an
\* earlier trade of the day.
C3_Witness ==
    /\ ret.op = "check_trade"
    /\ ret.flag
    /\ risk.last_trade_time >= Epoch
    /\ risk.daily_trades > 0
    /\ get_day_start(now) = risk.day_start

\* C5: the first check_trade, is_halted or get_status after the clock has
\* entered a new UTC day leaves halted false, the halt reason empty,
\* daily_pnl 0 and daily_trades 0, and the open ledger entries (so the total
\* exposure) as they were.
C5_NewDayReset ==
    [][(get_day_start(now) > risk.day_start
            /\ (CheckTradeStep \/ IsHalted \/ GetStatus)) =>
          /\ ~risk'.halted
          /\ risk'.halt_reason = <<>>
          /\ risk'.daily_pnl = 0
          /\ risk'.daily_trades = 0
          /\ risk'.positions = risk.positions
          /\ total_exposure(risk') = total_exposure(risk)
      ]_vars

\* After such a call: the snapshot last written, on the day before, says
\* halted, the instance is no longer halted and still holds a position.
C5_Witness ==
    /\ ret.op \in {"check_trade", "is_halted", "get_status"}
    /\ state_file.exists
    /\ state_file.halted
    /\ state_file.day_start < risk.day_start
    /\ ~risk.halted
    /\ risk.daily_pnl = 0
    /\ risk.daily_trades = 0
    /\ risk.positions = state_file.positions
    /\ position_count(risk) > 0

\* The checks of check_trade in the order the contract lists them, each
\* with the reason it gives and the condition under which it fails.
CheckOrder ==
    << "Trading halted", "Daily loss limit hit", "Daily trade limit reached",
       "Trade too small", "Trade too large", "Price too low", "Price too high",
       "Max positions reached", "Market exposure limit",
       "Total exposure limit", "Global cooldown", "Market cooldown" >>

CheckFails(k, self, t, c, p, n, sd) ==
    CASE k = 1 -> self.halted
      [] k = 2 -> self.daily_pnl <= -daily_loss_limit
      [] k = 3 -> self.daily_trades >= daily_trade_limit
      [] k = 4 -> n < min_trade_size
      [] k = 5 -> n > max_trade_size
      [] k = 6 -> p < min_price
      [] k = 7 -> p > max_price
      [] k = 8 -> sd = "BUY" /\ Cardinality(DOMAIN self.positions) >= max_positions
      [] k = 9 -> sd = "BUY" /\
                  SumUsdc(self.positions,
                          {i \in DOMAIN self.positions :
                              self.positions[i].condition_id = c}) + n
                      > max_per_market
      [] k = 10 -> sd = "BUY" /\
                   SumUsdc(self.positions, DOMAIN self.positions) + n
                       > max_total_exposure
      [] k = 11 -> t - self.last_trade_time < global_cooldown
      [] OTHER -> t - self.last_trade_by_market[c] < trade_cooldown

\* C6: check_trade returns the reason of the earliest failing check in the
\* order halted, daily loss, daily trade count, notional below min / above
\* max, price below min / above max, position count, per-instrument
\* exposure, total exposure (the last three for BUY only), global cooldown,
\* per-instrument cooldown; and (true, "OK") exactly when no check fails.
\* Stated of the call made in any reachable state with any input.
C6_FirstFailingCheck ==
    \A c \in Markets, p \in CheckPrices, n \in CheckSizes, sd \in Sides :
        LET r == check_trade(risk, now, c, p, n, sd)
            self == check_new_day(risk, now)
            failing == {k \in 1 .. Len(CheckOrder) :
                            CheckFails(k, self, now, c, p, n, sd)}
            first == CHOOSE k \in failing : \A j \in failing : k <= j
        IN  IF failing = {}
            THEN r.allowed /\ r.reason.kind = "OK"
            ELSE ~r.allowed /\ r.reason.kind = CheckOrder[first]

\* A rejection for the halt while the daily trade count had run out too.
C6_Witness ==
    /\ ret.op = "check_trade"
    /\ ~ret.flag
    /\ ret.reason.kind = "Trading halted"
    /\ risk.daily_trades >= daily_trade_limit
    /\ position_count(risk) > 0

\* C8: close_position of an id in the ledger removes that entry and no
\* other, adds realized_pnl to daily_pnl, adds one to daily_trades and sets
\* halted when the new daily_pnl <= -daily_loss_limit; of an id not in the
\* ledger it returns None and changes nothing, the state file included.
C8_ClosePosition ==
    [][\A i \in CloseIds, pnl \in Pnls :
          (ret'.op = "close_position" /\ ClosePosition(i, pnl, TRUE)) =>
              IF i \in DOMAIN risk.positions
              THEN /\ ret'.flag
                   /\ DOMAIN risk'.positions = (DOMAIN risk.positions) \ {i}
                   /\ \A j \in DOMAIN risk'.positions :
                          risk'.positions[j] = risk.positions[j]
                   /\ risk'.daily_pnl = risk.daily_pnl + pnl
                   /\ risk'.daily_trades = risk.daily_trades + 1
                   /\ risk.daily_pnl + pnl <= -daily_loss_limit => risk'.halted
                   /\ risk.daily_pnl + pnl > -daily_loss_limit =>
                          risk'.halted = risk.halted
              ELSE /\ ~ret'.flag
                   /\ risk' = risk
                   /\ state_file' = state_file
      ]_vars

\* The second close of an id: one trade was registered and closed at a loss
\* that halted the day, and the repeated close has added nothing.
C8_Witness ==
    /\ ret.op = "close_position"
    /\ ~ret.flag
    /\ ret.id # NoId
    /\ risk.halted
    /\ risk.daily_pnl = -daily_loss_limit
    /\ risk.daily_trades = 2

\* C4 as claimed: once daily_pnl <= -daily_loss_limit has been reached, by
\* a close_position or as seen by a check_trade, every later check_trade of
\* the same UTC day returns allowed = false with the halt reason.
C4_HaltedForTheDay ==
    [][(hist.loss_day = get_day_start(now) /\ CheckTradeStep) =>
          /\ ~ret'.flag
          /\ ret'.reason.kind \in {"Trading halted", "Daily loss limit hit"}
      ]_vars

(***************************************************************************)
(* Properties of the RiskManager under SpecAPI and SpecPersist.            *)
(***************************************************************************)

\* C7 as claimed: register_trade(BUY) adds exactly one ledger entry, with
\* the given instrument and notional, under the id it returns, and
\* register_trade(SELL) adds none; either sets last_trade_time and the
\* instrument's cooldown clock to the current time and adds one to
\* daily_trades; no other ledger entry, daily_pnl or halted changes.
C7_RegisterTrade ==
    [][RegisterTradeAny =>
          /\ IF ret'.side = "BUY"
             THEN /\ ret'.id \notin DOMAIN risk.positions
                  /\ DOMAIN risk'.positions =
                         (DOMAIN risk.positions) \cup {ret'.id}
                  /\ risk'.positions[ret'.id].condition_id = ret'.cid
                  /\ risk'.positions[ret'.id].size_usdc = ret'.size
             ELSE DOMAIN risk'.positions = DOMAIN risk.positions
          /\ \A j \in DOMAIN risk.positions :
                 /\ j \in DOMAIN risk'.positions
                 /\ risk'.positions[j] = risk.positions[j]
          /\ risk'.last_trade_time = now
          /\ risk'.last_trade_by_market[ret'.cid] = now
          /\ risk'.daily_trades = risk.daily_trades + 1
          /\ risk'.daily_pnl = risk.daily_pnl
          /\ risk'.halted = risk.halted
      ]_vars

\* C9: a RiskManager constructed over a state file holds exactly the saved
\* open entries; it has the saved daily_pnl, daily_trades, halted and
\* halt_reason when the saved day_start is the current UTC day, and
\* otherwise daily_pnl = 0, daily_trades = 0, halted = false.
C9_RestoreState ==
    [][Restart /\ state_file.exists =>
          /\ risk'.positions = state_file.positions
          /\ IF state_file.day_start = get_day_start(now)
             THEN /\ risk'.daily_pnl = state_file.daily_pnl
                  /\ risk'.daily_trades = state_file.daily_trades
                  /\ risk'.halted = state_file.halted
                  /\ risk'.halt_reason = state_file.halt_reason
             ELSE /\ risk'.daily_pnl = 0
                  /\ risk'.daily_trades = 0
                  /\ ~risk'.halted
      ]_vars

\* A start on a later day over a file that holds open entries, a trade
\* count and a halt.
C9_Witness ==
    /\ ret.op = "restart"
    /\ state_file.exists
    /\ state_file.day_start < get_day_start(now)
    /\ state_file.halted
    /\ state_file.daily_trades > 0
    /\ DOMAIN state_file.positions # {}
    /\ risk.positions = state_file.positions
    /\ risk.daily_trades = 0
    /\ ~risk.halted

(***************************************************************************)
(* Properties of the strategy tasks under SpecConc.                        *)
(***************************************************************************)

\* C2 as claimed: with several tasks in execute_buy on one RiskManager, in
\* every reachable state the notional of the open entries is at most
\* max_total_exposure, that of each instrument at most max_per_market, and
\* there are at most max_positions open entries.
C2_LimitsUnderConcurrency ==
    /\ total_exposure(risk) <= max_total_exposure
    /\ \A c \in Markets : get_market_exposure(risk, c) <= max_per_market
    /\ position_count(risk) <= max_positions

(***************************************************************************)
(* Properties of the realtime Trader under SpecRT.                         *)
(***************************************************************************)

\* The workers waiting for a BUY order of a coin.
InFlight(coin) ==
    {w \in Workers : rt.workers[w].pc = "place_order" /\ rt.workers[w].coin = coin}

\* C10 as claimed: under every interleaving of the reference-price worker
\* and the order-book worker, a coin never has more than one entry among
\* its open Position and its BUY orders in flight, and never more Positions
\* opened than orders that could have opened them one at a time.
C10_OneEntryPerInstrument ==
    \A coin \in Coins :
        Cardinality(InFlight(coin))
            + (IF coin \in DOMAIN rt.positions THEN 1 ELSE 0) <= 1

\* C18 as claimed (Trader.market_refresh): when a refresh replaces an
\* instrument's expiry, no position opened on the instrument it replaces is
\* left in the active map.
C18_RolloverClosesFirst ==
    [][\A c \in Coins :
          rt'.markets[c].end_time # rt.markets[c].end_time =>
              c \notin DOMAIN rt'.positions]_vars

C17_SellClosesOnSuccessOnly ==
    [][(sell' # sell /\ sell'.pos_id # NoId) =>
          LET closed == sell'.risk_closes = 1 /\ sell'.journal_closes = 1
              untouched == /\ sell'.risk_closes = 0 /\ sell'.journal_closes = 0
                           /\ risk' = risk /\ journal' = journal
              booked == /\ sell'.pos_id \notin DOMAIN risk'.positions
                        /\ sell'.pos_id \in DOMAIN risk.positions =>
                              /\ risk'.daily_pnl = risk.daily_pnl + sell'.pnl
                              /\ risk'.daily_trades = risk.daily_trades + 1
          IN  /\ sell'.pc = "place_order" =>
                    ~sell'.dry_run /\ sell'.orders = 1 /\ untouched
              /\ (sell'.pc = "idle" /\ sell'.dry_run) =>
                    sell'.orders = 0 /\ closed /\ booked
              /\ (sell'.pc = "idle" /\ sell'.order = "failure") =>
                    sell'.orders = 1 /\ untouched
              /\ (sell'.pc = "idle" /\ sell'.order = "success") =>
                    sell'.orders = 1 /\ closed /\ booked
              /\ (sell'.pc = "idle" /\ ~sell'.dry_run) => sell'.order # "none"]_vars

\* A live execute_sell whose order failed: the position is still in the
\* ledger and open in the journal.
C17_Witness ==
    /\ sell.pc = "idle" /\ ~sell.dry_run /\ sell.order = "failure"
    /\ sell.pos_id \in DOMAIN risk.positions
    /\ sell.pos_id \in DOMAIN journal.positions
    /\ journal.positions[sell.pos_id] = "open"

(***************************************************************************)
(* Properties of the ContrarianRealTimeTrader under SpecCrt.               *)
(***************************************************************************)
\* binance_stream handles a trade message of coin in this step.
BinanceMessage(coin) ==
    /\ crt.binance.pc = "recv"
    /\ crt'.markets[coin].binance_ticks = crt.markets[coin].binance_ticks + 1

AttemptRejected(coin) ==
    BinanceMessage(coin) /\ crt'.attempt.checked /\ ~crt'.attempt.allowed

OrderFailedNow ==
    crt.running /\ crt.binance.pc = "buy_order" /\ crt'.attempt.order = "failure"

\* C13 as claimed: an attempt that ends in a rejection or in a failed order
\* leaves the coin without a position and changes neither cooldowns[coin]
\* nor anything in the RiskManager.
C13_NoSideEffects ==
    [][\A coin \in CrtCoins :
          (AttemptRejected(coin) \/ (OrderFailedNow /\ crt.binance.coin = coin)) =>
              /\ coin \notin DOMAIN crt'.positions
              /\ crt'.cooldowns = crt.cooldowns
              /\ crt'.binance.pc = "recv"
              /\ risk' = risk]_vars

\* C13, amended: the same, except that a rejected attempt which is the
\* first RiskManager call of a new UTC day leaves the RiskManager as
\* _check_new_day resets it (daily_pnl, daily_trades, day_start, halted);
\* the ledger and the cooldown clocks are unchanged in every case.
C13_NoSideEffectsButNewDay ==
    [][\A coin \in CrtCoins :
          /\ AttemptRejected(coin) =>
                /\ coin \notin DOMAIN crt'.positions
                /\ crt'.cooldowns = crt.cooldowns
                /\ crt'.binance.pc = "recv"
                /\ risk' = check_new_day(risk, now)
                /\ risk'.positions = risk.positions
                /\ risk'.last_trade_time = risk.last_trade_time
                /\ risk'.last_trade_by_market = risk.last_trade_by_market
          /\ (OrderFailedNow /\ crt.binance.coin = coin) =>
                /\ coin \notin DOMAIN crt'.positions
                /\ crt'.cooldowns = crt.cooldowns
                /\ crt'.binance.pc = "recv"
                /\ risk' = risk]_vars

\* An attempt was rejected by check_trade, and the coin has no position.
C13_Witness ==
    /\ crt.running
    /\ crt.binance.pc = "recv"
    /\ crt.attempt.checked /\ ~crt.attempt.allowed
    /\ DOMAIN crt.positions = {}

\* C16 as claimed: when the first SELL of a liquidation has failed, one
\* more SELL is submitted, and when that one fails too the position stays
\* in the active map, its ledger entry stays open and no PnL is booked.
C16_StuckPositionKept ==
    [][(/\ crt.running
        /\ crt.binance.pc = "sell_retry"
        /\ crt.binance.coin \in DOMAIN crt.positions
        /\ crt'.liquidation.last = "failure"
        /\ crt'.binance.pc = "recv") =>
          /\ crt'.liquidation.orders = 2
          /\ crt.binance.coin \in DOMAIN crt'.positions
          /\ risk' = risk
          /\ journal' = journal]_vars

(***************************************************************************)
(* _check_exit applied to one position and one tick.                       *)
(***************************************************************************)
ExitEntries == {6, 15, 30}
ExitBids == {0, 7, 10, 21, 22, 23, 25, 27, 30, 33, 35, 37, 38, 39, 45}
ExitPeakGains == {0, 5, 9}
ExitSecs == {0, 30, 60, 61, 900}
ExitLimits == {<<8, 8>>, <<8, 5>>}

ExitInit ==
    /\ now = Epoch
    /\ risk = RiskManagerNew(Epoch)
    /\ state_file = NoFile
    /\ ret = Ret("init")
    /\ hist = [loss_day |-> -1, restarts |-> 0]
    /\ tasks = [s \in Tasks |-> Idle]
    /\ rt = TraderNew
    /\ crt = NoTrader
    /\ journal = NoJournal
    /\ buy = NoBuy
    /\ sell = NoSell
    /\ \E e \in ExitEntries, b \in ExitBids, g \in ExitPeakGains,
          sc \in ExitSecs, l \in ExitLimits, dry \in BOOLEAN :
           calc = [fn |-> "check_exit", done |-> FALSE,
                   pos |-> [entry_price |-> e, peak_price |-> e + g],
                   bid |-> b, secs |-> sc, tp |-> l[1], sl |-> l[2],
                   dry_run |-> dry, reason |-> NoExit, orders |-> <<>>]

\* One call of _check_exit, up to its first await.
CheckExit ==
    /\ calc.fn = "check_exit"
    /\ ~calc.done
    /\ LET r == check_exit(calc.pos, calc.bid, calc.secs, calc.tp, calc.sl,
                           calc.dry_run)
       IN  calc' = [calc EXCEPT !.done = TRUE, !.pos = r.pos,
                                !.reason = r.reason, !.orders = r.orders]
    /\ UNCHANGED <<now, risk, state_file, ret, hist, tasks, rt, crt, journal, buy, sell>>

NextExit == CheckExit

SpecExit == ExitInit /\ [][NextExit]_vars

(***************************************************************************)
(* Properties of _check_exit under SpecExit.                               *)
(***************************************************************************)
TakeProfitHolds == float_sub_ge(calc.bid, calc.pos.entry_price, calc.tp)
StopLossHolds == float_sub_ge(calc.pos.entry_price, calc.bid, calc.sl)
MarketClosingHolds == calc.secs <= 60 /\ calc.secs > 0
TrailingStopHolds ==
    /\ float_sub_ge(calc.pos.peak_price, calc.pos.entry_price, 5)
    /\ float_sub_ge(calc.pos.peak_price, calc.bid, 3)

C15_Thresholds ==
    (calc.fn = "check_exit" /\ calc.done /\ calc.bid > 0) =>
        LET change == calc.bid - calc.pos.entry_price
        IN  /\ change >= calc.tp => calc.reason = "take_profit"
            /\ change <= -calc.sl => calc.reason = "stop_loss"
            /\ (-calc.sl < change /\ change < calc.tp) =>
                   calc.reason \notin {"take_profit", "stop_loss"}

(***************************************************************************)
(* Properties of the fair-value functions under SpecFair.                  *)
(***************************************************************************)

\* C19 as claimed: with positive baseline and reference price, each of the
\* two fair_value functions returns, for any move however large, up and
\* down probabilities inside [0.08, 0.92] that sum to 1, and never raises.
C19_FairValueInRange ==
    (calc.fn = "fair_value" /\ calc.done
        /\ calc.start_price > 0 /\ calc.ref_price > 0) =>
        LET d == Scale(calc)
            o == calc.original
            c == calc.contrarian
        IN  /\ ~c.raises
            /\ 8 * FP <= 100 * c.up /\ 100 * c.up <= 92 * FP
            /\ 8 * FP <= 100 * c.down /\ 100 * c.down <= 92 * FP
            /\ c.up + c.down = FP
            /\ 8 * d <= o.up /\ o.up <= 92 * d
            /\ 8 * d <= o.down /\ o.down <= 92 * d
            /\ o.up + o.down = 100 * d

\* C20 as claimed: for every baseline and reference price the up
\* probability of LiveMarket.fair_value equals the down probability of
\* Market.fair_value (here: to within 2/FP, the precision of Exp).
C20_ContrarianMirrorsOriginal ==
    (calc.fn = "fair_value" /\ calc.done /\ ~calc.contrarian.raises) =>
        LET d == Scale(calc)
            lhs == calc.contrarian.up * 100 * d
            rhs == calc.original.down * FP
        IN  /\ lhs - rhs <= 2 * 100 * d
            /\ rhs - lhs <= 2 * 100 * d

(***************************************************************************)
(* Market.get_edge and LiveMarket.get_edge as functions of one market      *)
(* state.                                                                  *)
(***************************************************************************)
EdgeRefs == {0, 995, 1000, 1002}
EdgeAsks == {30, 40, 50, 94, 95, 100}
EdgeTicks == {4, 5}

EdgeInit ==
    /\ now = Epoch
    /\ risk = RiskManagerNew(Epoch)
    /\ state_file = NoFile
    /\ ret = Ret("init")
    /\ hist = [loss_day |-> -1, restarts |-> 0]
    /\ tasks = [s \in Tasks |-> Idle]
    /\ rt = TraderNew
    /\ crt = NoTrader
    /\ journal = NoJournal
    /\ buy = NoBuy
    /\ sell = NoSell
    /\ \E r \in EdgeRefs, ua \in EdgeAsks, da \in EdgeAsks, n \in EdgeTicks :
           calc = [fn |-> "get_edge", done |-> FALSE,
                   m |-> [discovered(LiveMarketNew, "BTC", "c1", 0)
                              EXCEPT !.start_price = IF r = 0 THEN 0 ELSE 1000,
                                     !.ref_price = r,
                                     !.up_bid = 28, !.up_ask = ua,
                                     !.down_bid = 28, !.down_ask = da,
                                     !.binance_ticks = n],
                   original |-> [side |-> "", edge |-> 0, price |-> 0],
                   contrarian |-> [side |-> "", edge |-> 0, price |-> 0]]

\* Market.get_edge and LiveMarket.get_edge of the same market state.
GetEdge ==
    /\ calc.fn = "get_edge"
    /\ ~calc.done
    /\ calc' = [calc EXCEPT !.done = TRUE,
                            !.original = get_edge(calc.m),
                            !.contrarian = live_get_edge(calc.m)]
    /\ UNCHANGED <<now, risk, state_file, ret, hist, tasks, rt, crt, journal, buy, sell>>

NextEdge == GetEdge

SpecEdge == EdgeInit /\ [][NextEdge]_vars

\* What the opportunity rule asks of a result res for fair values fair (in
\* units of 1/unit of a cent) and the asks of m.
EdgeRule(res, fair, m, unit) ==
    LET up_edge == fair.up - m.up_ask * unit
        down_edge == fair.down - m.down_ask * unit
        up_ok == m.up_ask < 95 /\ up_edge > 0
        down_ok == m.down_ask < 95 /\ down_edge > 0
    IN  /\ (res.side = "") <=> (~up_ok /\ ~down_ok)
        /\ res.side = "up" =>
               /\ up_ok
               /\ res.edge = up_edge
               /\ res.price = m.up_ask
               /\ down_ok => up_edge >= down_edge
        /\ res.side = "down" =>
               /\ down_ok
               /\ res.edge = down_edge
               /\ res.price = m.down_ask
               /\ up_ok => down_edge >= up_edge

EdgeDone == calc.fn = "get_edge" /\ calc.done

C22_TieGoesUp ==
    (/\ EdgeDone
     /\ calc.m.up_ask = calc.m.down_ask
     /\ calc.m.up_ask < 95
     /\ fair_value(calc.m).up = fair_value(calc.m).down
     /\ fair_value(calc.m).up - calc.m.up_ask * Scale(calc.m) > 0)
        => calc.original.side = "up"

\* C29: an evaluation of an open position with the time remaining in
\* (0, 60] seconds and neither take_profit nor stop_loss matching liquidates
\* the position with reason market_closing, whatever the bid is.
C29_ClosingWhateverBid ==
    (/\ calc.fn = "check_exit"
     /\ calc.done
     /\ MarketClosingHolds
     /\ ~TakeProfitHolds
     /\ ~StopLossHolds)
        => calc.reason = "market_closing"

(***************************************************************************)
(* SeenTracker: keys with the time of their last add, expiring after ttl.  *)
(***************************************************************************)
SeenTtl == 2
MaxSeenNow == 8
SeenKeys == {"a", "b"}

\* SeenTracker.add at time t.
seen_add(entries, key, t) == Put(entries, key, t)

\* __contains__ with the comparison >= in place of >.
seen_contains_early(entries, key, t) ==
    IF key \notin DOMAIN entries
    THEN [entries |-> entries, result |-> FALSE]
    ELSE IF t - entries[key] >= SeenTtl
    THEN [entries |-> Drop(entries, key), result |-> FALSE]
    ELSE [entries |-> entries, result |-> TRUE]

\* SeenTracker.__contains__ at time t: an expired entry is deleted.
seen_contains(entries, key, t) ==
    IF key \notin DOMAIN entries
    THEN [entries |-> entries, result |-> FALSE]
    ELSE IF t - entries[key] > SeenTtl
    THEN [entries |-> Drop(entries, key), result |-> FALSE]
    ELSE [entries |-> entries, result |-> TRUE]

\* SeenTracker._prune at time t.
seen_prune(entries, t) ==
    LET expired == {k \in DOMAIN entries : t - entries[k] > SeenTtl}
    IN  [k \in (DOMAIN entries) \ expired |-> entries[k]]

\* SeenTracker.__len__ at time t.
seen_len(entries, t) ==
    LET pruned == seen_prune(entries, t)
    IN  [entries |-> pruned, result |-> Cardinality(DOMAIN pruned)]

\* calc.added is the time of the last add of each key, kept beside the
\* tracker; calc.op, calc.key and calc.result describe the last operation.
SeenInit ==
    /\ now = Epoch
    /\ risk = RiskManagerNew(Epoch)
    /\ state_file = NoFile
    /\ ret = Ret("init")
    /\ hist = [loss_day |-> -1, restarts |-> 0]
    /\ tasks = [s \in Tasks |-> Idle]
    /\ rt = TraderNew
    /\ crt = NoTrader
    /\ journal = NoJournal
    /\ buy = NoBuy
    /\ sell = NoSell
    /\ calc = [fn |-> "SeenTracker", entries |-> EmptyLedger,
               added |-> EmptyLedger, op |-> "init", key |-> "",
               contained |-> FALSE, len |-> 0]

SeenTick ==
    /\ calc.fn = "SeenTracker"
    /\ now < MaxSeenNow
    /\ now' = now + 1
    /\ calc' = [calc EXCEPT !.op = "tick"]
    /\ UNCHANGED <<risk, state_file, ret, hist, tasks, rt, crt, journal, buy, sell>>

SeenAdd(key) ==
    /\ calc.fn = "SeenTracker"
    /\ calc' = [calc EXCEPT !.entries = seen_add(@, key, now),
                            !.added = Put(@, key, now),
                            !.op = "add", !.key = key]
    /\ UNCHANGED <<now, risk, state_file, ret, hist, tasks, rt, crt, journal, buy, sell>>

SeenContains(key) ==
    /\ calc.fn = "SeenTracker"
    /\ LET r == seen_contains(calc.entries, key, now)
       IN  calc' = [calc EXCEPT !.entries = r.entries, !.op = "contains",
                                !.key = key, !.contained = r.result]
    /\ UNCHANGED <<now, risk, state_file, ret, hist, tasks, rt, crt, journal, buy, sell>>

SeenLen ==
    /\ calc.fn = "SeenTracker"
    /\ LET r == seen_len(calc.entries, now)
       IN  calc' = [calc EXCEPT !.entries = r.entries, !.op = "len",
                                !.len = r.result]
    /\ UNCHANGED <<now, risk, state_file, ret, hist, tasks, rt, crt, journal, buy, sell>>

NextSeen ==
    \/ SeenTick
    \/ \E key \in SeenKeys : SeenAdd(key)
    \/ \E key \in SeenKeys : SeenContains(key)
    \/ SeenLen

SpecSeen == SeenInit /\ [][NextSeen]_vars

\* The keys whose last add is no more than ttl ago.
Unexpired == {k \in DOMAIN calc.added : now - calc.added[k] <= SeenTtl}

\* C28: a membership test reports a key as contained exactly when its last
\* add happened no more than ttl ago, and len is the number of such keys.
C28_SeenTracker ==
    calc.fn = "SeenTracker" =>
        /\ calc.op = "contains" => (calc.contained <=> calc.key \in Unexpired)
        /\ calc.op = "len" => calc.len = Cardinality(Unexpired)

\* A key re-added just before its expiry is still contained at a time when
\* its first add is more than ttl ago, while the other key has expired and
\* was dropped by a membership test.
C28_Witness ==
    /\ calc.fn = "SeenTracker"
    /\ calc.op = "len"
    /\ calc.len = 1
    /\ DOMAIN calc.added = SeenKeys
    /\ DOMAIN calc.entries = {"a"}
    /\ now - calc.added["a"] = SeenTtl
    /\ now - calc.added["b"] > SeenTtl

\* C23: an order-book snapshot applied to a market that already holds the
\* snapshot's bid and ask (the same message applied a second time) changes
\* nothing in the trader: no market field, tick counter, position or order.
C23_SecondSnapshotChangesNothing ==
    [][\A coin \in Coins, token \in Tokens, q \in Quotes :
          (/\ rt.workers["poly_stream"].pc = "recv"
           /\ IF token = "up"
              THEN rt.markets[coin].up_bid = q[1] /\ rt.markets[coin].up_ask = q[2]
              ELSE rt.markets[coin].down_bid = q[1]
                   /\ rt.markets[coin].down_ask = q[2]
           /\ PolyQuote(coin, token, q))
              => rt' = rt]_vars

(***************************************************************************)
(* The two feeds of the contrarian trader delivering fixed message         *)
(* sequences for one instrument, in any interleaving.                      *)
(***************************************************************************)
\* The reference feed's messages: prices of five trades.
FuseTrades == {<<a, 1000, 1000, 1000, b>> : a, b \in CrtRefPrices}

\* The order-book feed's messages.
FuseMessages ==
    {[kind |-> "book", side |-> s, q |-> q] :
        s \in {"up"}, q \in {<<38, 40>>, <<50, 52>>}}
    \cup {[kind |-> "book", side |-> s, q |-> q] :
            s \in {"down"}, q \in {<<58, 60>>}}
    \cup {[kind |-> "price_change", side |-> s, q |-> q] :
            s \in {"up"}, q \in CrtChanges}

FuseBooks == {<<a, b>> : a, b \in FuseMessages}

FuseInit ==
    /\ now = Epoch
    /\ risk = RiskManagerNew(Epoch)
    /\ state_file = NoFile
    /\ ret = Ret("init")
    /\ hist = [loss_day |-> -1, restarts |-> 0]
    /\ tasks = [s \in Tasks |-> Idle]
    /\ rt = TraderNew
    /\ buy = NoBuy
    /\ sell = NoSell
    /\ journal = NoJournal
    /\ \E dry \in BOOLEAN, e \in CrtEnds : crt = ContrarianAt(Epoch, dry, Epoch + e)
    /\ \E t \in FuseTrades, b \in FuseBooks :
           calc = [fn |-> "fuse", trades |-> t, books |-> b, i |-> 0, j |-> 0]

\* binance_stream receives the next message of the reference feed.
FuseTrade ==
    /\ calc.fn = "fuse"
    /\ calc.i < Len(calc.trades)
    /\ CrtBinance("BTC", calc.trades[calc.i + 1])
    /\ calc' = [calc EXCEPT !.i = @ + 1]

\* poly_stream receives the next message of the order-book feed.
FuseBook ==
    /\ calc.fn = "fuse"
    /\ calc.j < Len(calc.books)
    /\ LET d == calc.books[calc.j + 1]
       IN  IF d.kind = "book" THEN CrtBook("BTC", d.side, d.q)
           ELSE CrtPriceChange("BTC", d.side, d.q)
    /\ calc' = [calc EXCEPT !.j = @ + 1]

NextFuse ==
    \/ CrtTick /\ UNCHANGED calc
    \/ FuseTrade
    \/ FuseBook
    \/ CrtBuyResult(TRUE) /\ UNCHANGED calc
    \/ CrtBuyResult(FALSE) /\ UNCHANGED calc
    \/ CrtSellResult(TRUE) /\ UNCHANGED calc
    \/ CrtSellResult(FALSE) /\ UNCHANGED calc
    \/ CrtRetryResult(TRUE) /\ UNCHANGED calc
    \/ CrtRetryResult(FALSE) /\ UNCHANGED calc

SpecFuse == FuseInit /\ [][NextFuse]_vars

\* The market after the order-book feed's messages alone, applied in their
\* order to a newly discovered market.
BooksAlone ==
    LET apply(m, d) == IF d.kind = "book" THEN on_book(m, d.side, d.q)
                       ELSE on_price_change(m, d.side, d.q)
    IN  apply(apply(discovered(LiveMarketNew, "BTC", "m1", 0), calc.books[1]),
              calc.books[2])

FuseDone ==
    /\ calc.fn = "fuse"
    /\ calc.i = Len(calc.trades)
    /\ calc.j = Len(calc.books)

\* C24: once both feeds have delivered all their messages, in whatever
\* interleaving, the reference price is the last trade's price, the baseline
\* the first trade's price, and the best bid/ask fields are those the
\* order-book messages alone produce.
C24_FeedsCommute ==
    FuseDone =>
        LET m == crt.markets["BTC"]
        IN  /\ m.ref_price = calc.trades[Len(calc.trades)]
            /\ m.start_price = calc.trades[1]
            /\ m.up_bid = BooksAlone.up_bid
            /\ m.up_ask = BooksAlone.up_ask
            /\ m.down_bid = BooksAlone.down_bid
            /\ m.down_ask = BooksAlone.down_ask

\* Both feeds are finished, the last order-book message came between two
\* trades, and a position was opened on the way.
C24_Witness ==
    /\ FuseDone
    /\ calc.trades[1] # calc.trades[5]
    /\ calc.books[1].side # calc.books[2].side
    /\ crt.markets["BTC"].down_ask = 60
    /\ crt.positions # <<>>

(***************************************************************************)
(* The contrarian trader's run: its four tasks, the errors of the two feed *)
(* workers, and the shutdown.                                              *)
(***************************************************************************)
CrtTasks == {"binance", "poly", "status", "refresh"}
CrtFeeds == {"binance", "poly"}

\* gather returning without waiting for the tasks.
gather_not_awaited(c) == TRUE

\* await asyncio.gather(*tasks, return_exceptions=True) can return.
gathered(c) == \A task \in CrtTasks : task_pc(c, task) = "done"

\* The task takes the CancelledError at the await it is suspended in and
\* leaves its loop; an order it was waiting for is left without its result.
cancelled(c, task) ==
    LET pc == task_pc(c, task)
        left == [c EXCEPT
                    !.attempt.order = IF task = "binance" /\ pc = "buy_order"
                                      THEN "aborted" ELSE @,
                    !.liquidation.last =
                        IF task = "binance" /\ pc \in {"sell_order", "sell_retry"}
                        THEN "aborted" ELSE @]
    IN  at_pc(left, task, "done")

\* An exception that ends the feed worker.
feed_error_fatal(c, w) == at_pc(c, w, "done")

\* except Exception in a feed worker: the error is logged and the worker
\* sleeps before it connects again; what the handler was doing is dropped.
feed_error(c, w) ==
    at_pc([c EXCEPT !.attempt.order = IF w = "binance" /\ c.binance.pc = "buy_order"
                                      THEN "raised" ELSE @,
                    !.liquidation.last =
                        IF w = "binance" /\ c.binance.pc \in {"sell_order", "sell_retry"}
                        THEN "raised" ELSE @],
          w, "backoff")

\* The shutdown signal: run leaves shutdown.wait() and cancels every task.
CrtSignal ==
    /\ crt.running
    /\ crt.shutdown = "no"
    /\ crt' = [crt EXCEPT !.shutdown = "cancelling"]
    /\ UNCHANGED <<now, risk, state_file, ret, hist, tasks, rt, journal, buy, sell>>

\* A cancelled task is resumed.
CrtCancelled(task) ==
    /\ crt.shutdown = "cancelling"
    /\ task_pc(crt, task) # "done"
    /\ crt' = cancelled(crt, task)
    /\ UNCHANGED <<now, risk, state_file, ret, hist, tasks, rt, journal, buy, sell>>

\* run, after gather: the SHUTDOWN line.
CrtReport ==
    /\ crt.shutdown = "cancelling"
    /\ gathered(crt)
    /\ crt' = [crt EXCEPT !.shutdown = "reported", !.running = FALSE]
    /\ UNCHANGED <<now, risk, state_file, ret, hist, tasks, rt, journal, buy, sell>>

\* A feed worker's connection fails, a message cannot be parsed, or the
\* place_order the worker is waiting for raises.
CrtFeedError(w) ==
    /\ crt.shutdown = "no"
    /\ task_pc(crt, w) \in {"recv", "buy_order", "sell_order", "sell_retry"}
    /\ crt' = feed_error(crt, w)
    /\ UNCHANGED <<now, risk, state_file, ret, hist, tasks, rt, journal, buy, sell>>

\* binance_stream, one trade message whose decision step raises: the
\* reference price is written, the rest of the handler is not run.
CrtBinanceRaises(sym, px) ==
    /\ crt.shutdown = "no"
    /\ crt.binance.pc = "recv"
    /\ crt.markets[sym].binance_ticks < MaxBinanceTicks
    /\ crt' = feed_error([crt EXCEPT !.markets[sym] =
                             [@ EXCEPT !.ref_price = px,
                                       !.binance_ticks = @ + 1,
                                       !.start_price = IF @ = 0 THEN px ELSE @]],
                         "binance")
    /\ UNCHANGED <<now, risk, state_file, ret, hist, tasks, rt, journal, buy, sell>>

\* The connection of a feed worker is closed normally: async for ends and
\* the worker's loop starts again without a sleep.
CrtFeedClosed(w) ==
    /\ crt.shutdown = "no"
    /\ task_pc(crt, w) = "recv"
    /\ crt' = at_pc(crt, w, "connect")
    /\ UNCHANGED <<now, risk, state_file, ret, hist, tasks, rt, journal, buy, sell>>

MaxRunNow == 5
RunQuotes(side) == IF side = "up" THEN {<<38, 40>>} ELSE {<<58, 60>>}

\* A live trader just started.
RunInit == CrtInit /\ ~crt.dry_run

RunTick ==
    /\ now < MaxRunNow
    /\ now' = now + 1
    /\ UNCHANGED <<risk, state_file, ret, hist, tasks, rt, crt, journal, buy, sell>>

NextRun ==
    \/ RunTick /\ UNCHANGED calc
    \/ \E sym \in CrtCoins, px \in CrtRefPrices :
           CrtBinance(sym, px) /\ UNCHANGED calc
    \/ CrtBuyResult(TRUE) /\ UNCHANGED calc
    \/ CrtBuyResult(FALSE) /\ UNCHANGED calc
    \/ CrtSellResult(TRUE) /\ UNCHANGED calc
    \/ CrtSellResult(FALSE) /\ UNCHANGED calc
    \/ CrtRetryResult(TRUE) /\ UNCHANGED calc
    \/ CrtRetryResult(FALSE) /\ UNCHANGED calc
    \/ \E coin \in CrtCoins, side \in CrtSides :
           \E q \in RunQuotes(side) : CrtBook(coin, side, q) /\ UNCHANGED calc
    \/ \E w \in CrtFeeds : CrtFeedError(w) /\ UNCHANGED calc
    \/ \E sym \in CrtCoins, px \in CrtRefPrices :
           CrtBinanceRaises(sym, px) /\ UNCHANGED calc
    \/ \E w \in CrtFeeds : CrtFeedClosed(w) /\ UNCHANGED calc
    \/ \E w \in CrtFeeds : CrtReconnect(w) /\ UNCHANGED calc
    \/ CrtSignal /\ UNCHANGED calc
    \/ \E task \in CrtTasks : CrtCancelled(task) /\ UNCHANGED calc
    \/ CrtReport /\ UNCHANGED calc

SpecRun == RunInit /\ [][NextRun]_vars

\* C25: when the final status line has been reported, every feed, status
\* and refresh task has terminated, and from then on no step changes the
\* trader, the RiskManager or the journal.
C25_TasksEndBeforeReport ==
    /\ [](crt.shutdown = "reported" =>
              \A task \in CrtTasks : task_pc(crt, task) = "done")
    /\ [][crt.shutdown = "reported" =>
              /\ crt' = crt
              /\ risk' = risk
              /\ journal' = journal
              /\ state_file' = state_file]_vars

\* The final status was reported after a run in which a position was opened.
C25_Witness ==
    /\ crt.shutdown = "reported"
    /\ crt.positions # <<>>
    /\ crt.markets["BTC"].binance_ticks >= min_binance_ticks

\* C26: a BUY order in flight when the shutdown begins runs to its success
\* or failure result: the worker leaves its wait for the order only with
\* the order's result.
C26_InFlightBuyCompletes ==
    [][(/\ crt.shutdown # "no"
        /\ crt.binance.pc = "buy_order"
        /\ crt'.binance.pc # "buy_order")
           => crt'.attempt.order \in {"success", "failure"}]_vars

\* No error terminates a feed worker.
WorkersSurvive ==
    [](crt.shutdown = "no" =>
           \A w \in CrtFeeds : task_pc(crt, w) # "done")

SpecRTLive ==
    /\ RTInit
    /\ [][NextRT]_vars
    /\ WF_vars(RTTick)
    /\ WF_vars(\E sym \in Coins, px \in RefPrices : BinanceTrade(sym, px))
    /\ WF_vars(\E coin \in Coins, token \in Tokens, q \in Quotes :
                   PolyQuote(coin, token, q))
    /\ WF_vars(\E w \in Workers, success \in BOOLEAN : OrderResult(w, success))
    /\ WF_vars(\E coin \in Coins, secs \in SecsToEnd : RefreshMarket(coin, secs))

\* C30: every position that is opened eventually leaves the active map.
C30_PositionsLeave ==
    \A c \in Coins : (c \in DOMAIN rt.positions) ~> (c \notin DOMAIN rt.positions)

\* C31: the baseline of an instrument is set once, to the first reference
\* price seen for it: while the instrument stays current a baseline that is
\* set is not changed, and when a refresh replaces the instrument the
\* baseline of the old one is not kept.
C31_BaselineOncePerInstrument ==
    [][\A coin \in Coins :
          LET m == rt.markets[coin]
              n == rt'.markets[coin]
          IN  /\ (n.end_time = m.end_time /\ m.start_price # 0)
                     => n.start_price = m.start_price
              /\ (n.end_time # m.end_time /\ m.start_price # 0)
                     => n.start_price = 0]_vars

(***************************************************************************)
(* The order-book worker's subscription across rollovers: the clock, the   *)
(* market refresh, book messages, and the worker's connection.             *)
(***************************************************************************)
NextSub ==
    \/ CrtTick /\ UNCHANGED calc
    \/ \E coin \in CrtCoins, side \in CrtSides :
           \E q \in CrtQuotes(side) : CrtBook(coin, side, q) /\ UNCHANGED calc
    \/ \E coin \in CrtCoins : CrtRefreshScan(coin) /\ UNCHANGED calc
    \/ \E coin \in CrtCoins, found \in BOOLEAN, c \in Markets, e \in CrtEnds :
           CrtDiscover(coin, found, c, e) /\ UNCHANGED calc
    \/ CrtFeedError("poly") /\ UNCHANGED calc
    \/ CrtFeedClosed("poly") /\ UNCHANGED calc
    \/ CrtReconnect("poly") /\ UNCHANGED calc

\* The clock, the refresh task and the worker's own reconnect go on; the
\* connection is closed or fails only if the venue does so.
SpecSub ==
    /\ CrtInit
    /\ [][NextSub]_vars
    /\ WF_vars(CrtTick /\ UNCHANGED calc)
    /\ WF_vars(\E coin \in CrtCoins : CrtRefreshScan(coin) /\ UNCHANGED calc)
    /\ WF_vars(\E coin \in CrtCoins, found \in BOOLEAN, c \in Markets, e \in CrtEnds :
                   CrtDiscover(coin, found, c, e) /\ UNCHANGED calc)
    /\ WF_vars(CrtReconnect("poly") /\ UNCHANGED calc)

\* C32: whenever the tracked token set differs from the set the order-book
\* worker is subscribed to, the worker eventually holds a subscription for
\* exactly the current token set.
C32_Resubscribed ==
    (crt.subscribed # tokens_of(crt.markets))
        ~> (crt.subscribed = tokens_of(crt.markets))

(***************************************************************************)
(* The realtime Trader's poly_stream receiving frames: one message or an   *)
(* array of messages.                                                      *)
(***************************************************************************)
FrameMessages ==
    {[coin |-> c, token |-> k, q |-> q] : c \in Coins, k \in Tokens, q \in Quotes}

Frames == {<<d>> : d \in FrameMessages}
              \cup {<<d, e>> : d, e \in FrameMessages}

\* The event handling of poly_stream for message d: the quote is stored and
\* check is called.
poly_message(self, t, d) ==
    LET m == self.markets[d.coin]
        seen == [self EXCEPT !.markets[d.coin] =
                    IF d.token = "up"
                    THEN [m EXCEPT !.up_bid = d.q[1], !.up_ask = d.q[2]]
                    ELSE [m EXCEPT !.down_bid = d.q[1], !.down_ask = d.q[2]]]
    IN  check(seen, t, "poly_stream", d.coin)

\* poly_stream for one frame: the loop over the frame's messages only reads
\* each event type; the event handling follows the loop and so runs once,
\* for the last message.
poly_frame(self, t, frame) == poly_message(self, t, frame[Len(frame)])

PolyFrame(frame) ==
    /\ rt.workers["poly_stream"].pc = "recv"
    /\ rt.ticks < MaxTicks
    /\ rt' = poly_frame(rt, now, frame)
    /\ UNCHANGED <<now, risk, state_file, ret, hist, tasks, extVars>>

NextFrame ==
    \/ RTTick
    \/ \E sym \in Coins, px \in RefPrices : BinanceTrade(sym, px)
    \/ \E frame \in Frames : PolyFrame(frame)
    \/ \E w \in Workers : OrderResult(w, TRUE)
    \/ \E w \in Workers : OrderResult(w, FALSE)

SpecFrame == RTInit /\ [][NextFrame]_vars

\* The quote fields of market m for a token.
QuoteOf(m, token) ==
    IF token = "up" THEN <<m.up_bid, m.up_ask>> ELSE <<m.down_bid, m.down_ask>>

\* C33: after a frame has been processed, every message of the frame has
\* been applied in arrival order: each token named in the frame holds the
\* quote of the last message of the frame for that token.
C33_EveryMessageApplied ==
    [][\A frame \in Frames :
          (rt.workers["poly_stream"].pc = "recv" /\ PolyFrame(frame))
              => \A i \in 1..Len(frame) :
                     (\A j \in (i + 1)..Len(frame) :
                          frame[j].coin # frame[i].coin
                              \/ frame[j].token # frame[i].token)
                         => QuoteOf(rt'.markets[frame[i].coin], frame[i].token)
                                = frame[i].q]_vars

\* C34: a book update that brings the bid of an open position's token to a
\* value at which an exit condition holds starts the exit on that update:
\* the SELL is submitted, or in a dry run the position is closed.
C34_BookUpdateTriggersExit ==
    [][\A coin \in CrtCoins, side \in CrtSides :
          \A q \in CrtQuotes(side) :
              (/\ crt.binance.pc = "recv"
               /\ coin \in DOMAIN crt.positions
               /\ crt.positions[coin].side = side
               /\ check_exit(crt.positions[coin], q[1],
                             live_secs_left(crt.markets[coin], now),
                             tp_cents, sl_cents, crt.dry_run).reason # NoExit
               /\ CrtBook(coin, side, q))
                  => \/ crt'.binance.pc = "sell_order"
                     \/ coin \notin DOMAIN crt'.positions]_vars


(***************************************************************************)
(* Position ids, the ledger and the Position map of the contrarian trader. *)
(***************************************************************************)

\* C35 as claimed: the id register_trade returns differs from the id of
\* every entry open in the ledger, for any sequence of register_trade and
\* close_position calls; register_trade overwrites no ledger entry and
\* never lowers the tracked exposure.
C35_FreshPositionId ==
    [][RegisterTradeAny =>
          /\ ret'.id \notin DOMAIN risk.positions
          /\ \A j \in DOMAIN risk.positions :
                 /\ j \in DOMAIN risk'.positions
                 /\ risk'.positions[j] = risk.positions[j]
          /\ total_exposure(risk') >= total_exposure(risk)
      ]_vars

\* A new process over the trader's state file: __init__ starts with no
\* Position, init constructs the RiskManager, whose _load_state restores the
\* saved ledger, and run discovers the markets and starts the four tasks.
CrtRestart(end_time) ==
    /\ hist.restarts < MaxRestarts
    /\ crt' = ContrarianAt(now, crt.dry_run, now + end_time)
    /\ risk' = load_state(RiskManagerNew(now), state_file)
    /\ hist' = [hist EXCEPT !.restarts = @ + 1]
    /\ UNCHANGED <<now, state_file, ret, tasks, rt, journal, buy, sell>>

NextBoot ==
    \/ RunTick /\ UNCHANGED calc
    \/ \E sym \in CrtCoins, px \in CrtRefPrices :
           CrtBinance(sym, px) /\ UNCHANGED calc
    \/ CrtBuyResult(TRUE) /\ UNCHANGED calc
    \/ CrtBuyResult(FALSE) /\ UNCHANGED calc
    \/ CrtSellResult(TRUE) /\ UNCHANGED calc
    \/ CrtSellResult(FALSE) /\ UNCHANGED calc
    \/ CrtRetryResult(TRUE) /\ UNCHANGED calc
    \/ CrtRetryResult(FALSE) /\ UNCHANGED calc
    \/ \E coin \in CrtCoins, side \in CrtSides :
           \E q \in CrtQuotes(side) : CrtBook(coin, side, q) /\ UNCHANGED calc
    \/ \E e \in CrtEnds : CrtRestart(e) /\ UNCHANGED calc

\* The live contrarian trader, stopped and started again over its state
\* file at any time.
SpecBoot == RunInit /\ [][NextBoot]_vars

\* The ledger ids held by the trader's open Positions.
HeldIds == {crt.positions[c].risk_pos_id : c \in DOMAIN crt.positions}

\* C36 as claimed: whenever no entry or exit is in flight, each open
\* Position's risk_pos_id names an open ledger entry and each ledger entry
\* belongs to an open Position, one to one, also after a restart that
\* reloads the ledger from the state file.
C36_LedgerMatchesPositions ==
    crt.binance.pc = "recv" =>
        /\ HeldIds = DOMAIN risk.positions
        /\ Cardinality(HeldIds) = Cardinality(DOMAIN crt.positions)

\* C37 as claimed: when market_refresh_loop has force-closed the Position
\* while _check_exit was suspended in its SELL, the resumed _check_exit adds
\* no PnL a second time and its removal of the Position from the map does
\* not fail: the worker goes on to its next message.
C37_ForceCloseDuringSell ==
    [][(/\ crt.binance.pc \in {"sell_order", "sell_retry"}
        /\ crt.binance.coin \notin DOMAIN crt.positions
        /\ crt'.binance.pc \notin {"sell_order", "sell_retry"})
           => /\ risk'.daily_pnl = risk.daily_pnl
              /\ crt'.binance.pc = "recv"]_vars

\* C38 as claimed: a Position opened by _check_edge on a reference tick is
\* not liquidated by the _check_exit call of that same tick: when the BUY
\* has filled, the handler ends with the Position open and no SELL started.
C38_NoExitOnEntryTick ==
    [][CrtBuyResult(TRUE) =>
          /\ crt.binance.coin \in DOMAIN crt'.positions
          /\ crt'.binance.pc = "recv"]_vars

\* C39 as claimed: after a rollover has replaced the instrument, the book
\* fields count as "no quote" until an order-book message for the new
\* tokens has arrived: no BUY is decided for the new instrument on a bid or
\* ask received for the previous instrument's tokens.  No message for the
\* new tokens can have arrived while the worker is not subscribed to them.
C39_NoStaleQuoteEntry ==
    [][\A sym \in CrtCoins, px \in CrtRefPrices :
           (/\ token_id(crt.markets[sym], "up") \notin crt.subscribed
            /\ token_id(crt.markets[sym], "down") \notin crt.subscribed
            /\ CrtBinance(sym, px))
               => crt'.binance.pc # "buy_order"]_vars

\* C40 as claimed: realized PnL passed to close_position after the clock
\* has crossed into a new UTC day is counted in the new day's daily_pnl,
\* whichever RiskManager call is the first one after midnight: the new day
\* starts from 0 and holds exactly this PnL.
C40_PnlCountedInNewDay ==
    [][(/\ get_day_start(now) > risk.day_start
        /\ ClosePositionStep
        /\ ret'.flag)
           => /\ risk'.day_start = get_day_start(now)
              /\ risk'.daily_pnl = ret'.pnl]_vars
============================================================================
